---------------------------- MODULE Spec2Model ----------------------------
(***************************************************************************)
(* omop-atlas-backend: the vocabulary service (concept lookup with a Redis *)
(* cache, related concepts) and the concept set service (transactional    *)
(* create / update / delete of concept sets over a SQLAlchemy session).   *)
(***************************************************************************)
EXTENDS Integers, Sequences, FiniteSets, TLC

(***************************************************************************)
(* Bounds                                                                  *)
(***************************************************************************)
MaxConceptId == 2

MaxSetId == 2

\* how many keys hold a text the service did not write, at any one time
MaxForeign == 1

\* the largest limit and the largest offset a search is called with
MaxLimit == 5

MaxOffset == 1

ConceptIds == 1..MaxConceptId

\* a concept id no row of table concept has (999 in the tests)
MissingConceptId == MaxConceptId + 1

LookupIds == ConceptIds \cup {MissingConceptId}

(***************************************************************************)
(* Program constants                                                       *)
(***************************************************************************)
CONCEPT_TTL == 3600

RELATED_TTL == 3600

\* a search term of LONG_TERM_LEN characters or more adds its first TRUNCATED_LEN
\* characters as a term and is itself left out of the candidate filters
LONG_TERM_LEN == 8

TRUNCATED_LEN == 6

VARIABLES
    concept,               \* table concept: concept_id -> row or NoRow
    concept_relationship,  \* table concept_relationship: set of rows
    concept_ancestor,      \* table concept_ancestor: set of rows
    redis_client,          \* VocabularyService.redis is not None
    redis,                 \* the Redis key space: key -> [text, ex] or NoEntry
    vlast,                 \* outcome of the last VocabularyService call
    users,                 \* table users: set of existing user ids
    committed,             \* concept_set / concept_set_item as committed
    session,               \* the same tables as seen inside the AsyncSession's transaction
    next_set_id,           \* the concept_set primary key sequence
    last,                  \* outcome of the last ConceptSetService call
    concept_synonym,       \* table concept_synonym: set of rows
    search_call,           \* the arguments of the search_concepts call
    search_result,         \* what the call returned, Pending before it has run
    requests,              \* the update_concept_set calls in progress, each in its own session
    item_ids               \* the primary keys of the committed concept_set_item rows

vars == <<concept, concept_relationship, concept_ancestor, redis_client, redis, vlast,
          users, committed, session, next_set_id, last,
          concept_synonym, search_call, search_result, requests, item_ids>>

vocab_vars == <<concept, concept_relationship, concept_ancestor, redis_client, redis, vlast>>

set_vars == <<users, committed, session, next_set_id, last>>

search_vars == <<concept_synonym, search_call, search_result>>

request_vars == <<requests, item_ids>>

(***************************************************************************)
(* Generic helpers                                                         *)
(***************************************************************************)
NULL == [kind |-> "NULL"]

\* a value of a nullable text column that is not NULL
Str(v) == [kind |-> "str", value |-> v]

RECURSIVE Perms(_)
\* every enumeration of a finite set as a sequence (a result set has no ORDER BY)
Perms(S) ==
    IF S = {} THEN {<<>>}
    ELSE UNION {{<<x>> \o p : p \in Perms(S \ {x})} : x \in S}

Range(s) == {s[i] : i \in DOMAIN s}

\* Optional[...] arguments: <<>> is None, <<v>> is the value v
None == <<>>

Some(v) == <<v>>

(***************************************************************************)
(* Vocabulary tables                                                       *)
(***************************************************************************)
NoRow == [kind |-> "no_row"]

\* a row of table concept
ConceptRow(id) == [kind |-> "Concept", concept_id |-> id, concept_name |-> "current"]

\* the relationship table: relationship_id -> relationship_name
relationship ==
    [rid \in {"Maps to", "Is a", "Subsumes"} |->
        IF rid = "Maps to" THEN "Non-standard to Standard map" ELSE rid]

\* candidate rows of concept_relationship
ConceptRelationshipRows ==
    { [concept_id_1 |-> 1, concept_id_2 |-> 2, relationship_id |-> "Maps to", invalid_reason |-> NULL],
      [concept_id_1 |-> 1, concept_id_2 |-> 2, relationship_id |-> "Subsumes", invalid_reason |-> NULL],
      [concept_id_1 |-> 1, concept_id_2 |-> 2, relationship_id |-> "Is a",
       invalid_reason |-> [kind |-> "str", s |-> "D"]] }

\* candidate rows of concept_ancestor
ConceptAncestorRows ==
    { [ancestor_concept_id |-> 1, descendant_concept_id |-> 1, min_levels_of_separation |-> 0],
      [ancestor_concept_id |-> 2, descendant_concept_id |-> 1, min_levels_of_separation |-> 1],
      [ancestor_concept_id |-> 1, descendant_concept_id |-> 2, min_levels_of_separation |-> 1] }

(***************************************************************************)
(* Pydantic schemas and their JSON form                                    *)
(***************************************************************************)
\* ConceptSchema.model_validate(row): the schema object built from a row's attributes
model_validate(row) ==
    [kind |-> "ConceptSchema", concept_id |-> row.concept_id, concept_name |-> row.concept_name]

\* ConceptSchema.model_dump_json(): the JSON text of a schema object
model_dump_json(schema) ==
    [kind |-> "json_object", concept_id |-> schema.concept_id, concept_name |-> schema.concept_name]

\* does ConceptSchema.model_validate_json(text) succeed
concept_json_valid(text) == text.kind = "json_object"

\* ConceptSchema.model_validate_json(text), for a text on which it succeeds
model_validate_json(text) ==
    [kind |-> "ConceptSchema", concept_id |-> text.concept_id, concept_name |-> text.concept_name]

\* "[" + ",".join(r.model_dump_json(by_alias=True) for r in results) + "]"
related_dump_json(results) == [kind |-> "json_array", elems |-> results]

\* does json.loads(text) followed by RelatedConceptSchema.model_validate of every item succeed
related_json_valid(text) == text.kind = "json_array"

\* [RelatedConceptSchema.model_validate(item) for item in json.loads(text)]
related_validate_json(text) == text.elems

(***************************************************************************)
(* The Redis key space                                                     *)
(***************************************************************************)
NoEntry == [kind |-> "nil"]

concept_key(id) == <<"concept", id>>

related_key(id) == <<"concept_related", id>>

RedisKeys == {concept_key(id) : id \in LookupIds} \cup {related_key(id) : id \in LookupIds}

\* Python truthiness of what redis.get returned: None and "" are falsy
truthy(cached) == cached.kind \notin {"nil", "empty_string"}

\* what the caller and the mocks of the tests observe of one call: the value returned
\* or the exception raised, the awaited redis.get / redis.set / db.execute calls, and
\* the text the key held when the call started
call_record(r, cached_before) ==
    [op |-> r.op, id |-> r.id, outcome |-> r.outcome, result |-> r.result,
     get_attempted |-> r.get_attempted, get_raised |-> r.get_raised,
     set_attempted |-> r.set_attempted, set_raised |-> r.set_raised,
     hit |-> r.hit, db_executes |-> r.db_executes, cached_before |-> cached_before]

(***************************************************************************)
(* VocabularyService.get_concept_by_id                                     *)
(***************************************************************************)
\* redis.get outside a try block: its exception leaves the call
concept_cache_read_raising(id, get_raises) ==
    LET attempted == redis_client
        raised == attempted /\ get_raises
        cached == IF attempted /\ ~raised THEN redis[concept_key(id)].text ELSE NoEntry
        decodable == truthy(cached) /\ concept_json_valid(cached)
    IN  [get_attempted |-> attempted,
         get_raised |-> raised,
         propagated |-> raised,
         hit |-> decodable,
         schema |-> IF decodable THEN model_validate_json(cached) ELSE NULL]

\* the try block around redis.get: what the lookup sees of the cache
concept_cache_read(id, get_raises) ==
    LET attempted == redis_client
        raised == attempted /\ get_raises
        cached == IF attempted /\ ~raised THEN redis[concept_key(id)].text ELSE NoEntry
        decodable == truthy(cached) /\ concept_json_valid(cached)
    IN  [get_attempted |-> attempted,
         get_raised |-> raised,
         propagated |-> FALSE,
         hit |-> decodable,
         schema |-> IF decodable THEN model_validate_json(cached) ELSE NULL]

\* redis.set without ex=: the entry never expires
concept_cache_write_no_ttl(id, schema, set_raises) ==
    LET attempted == redis_client
        raised == attempted /\ set_raises
    IN  [set_attempted |-> attempted,
         set_raised |-> raised,
         propagated |-> FALSE,
         redis |-> IF attempted /\ ~raised
                   THEN [redis EXCEPT ![concept_key(id)] =
                            [text |-> model_dump_json(schema), ex |-> 0]]
                   ELSE redis]

\* the try block around redis.set
concept_cache_write(id, schema, set_raises) ==
    LET attempted == redis_client
        raised == attempted /\ set_raises
    IN  [set_attempted |-> attempted,
         set_raised |-> raised,
         propagated |-> FALSE,
         redis |-> IF attempted /\ ~raised
                   THEN [redis EXCEPT ![concept_key(id)] =
                            [text |-> model_dump_json(schema), ex |-> CONCEPT_TTL]]
                   ELSE redis]

\* the early return, had it come after the store query
concept_hit_requery(base, schema) ==
    [base EXCEPT !.hit = TRUE, !.result = schema, !.db_executes = 1]

\* "if cached: return ConceptSchema.model_validate_json(cached)": the early return
concept_hit(base, schema) == [base EXCEPT !.hit = TRUE, !.result = schema]

\* the whole call: its outcome and effects
get_concept_by_id_run(id, get_raises, set_raises) ==
    LET rd == concept_cache_read(id, get_raises)
        base == [op |-> "get_concept_by_id", id |-> id,
                 get_attempted |-> rd.get_attempted, get_raised |-> rd.get_raised,
                 set_attempted |-> FALSE, set_raised |-> FALSE,
                 hit |-> FALSE, db_executes |-> 0,
                 outcome |-> "ok", result |-> NULL, redis |-> redis]
    IN  IF rd.propagated
        THEN [base EXCEPT !.outcome = "RedisError"]
        ELSE IF rd.hit
        THEN concept_hit(base, rd.schema)
        ELSE LET row == concept[id]
             IN  IF row = NoRow
                 THEN [base EXCEPT !.db_executes = 1, !.outcome = "ConceptNotFound"]
                 ELSE LET concept_schema == model_validate(row)
                          wr == concept_cache_write(id, concept_schema, set_raises)
                      IN  IF wr.propagated
                          THEN [base EXCEPT !.db_executes = 1, !.set_attempted = wr.set_attempted,
                                            !.set_raised = wr.set_raised, !.outcome = "RedisError",
                                            !.redis = wr.redis]
                          ELSE [base EXCEPT !.db_executes = 1, !.set_attempted = wr.set_attempted,
                                            !.set_raised = wr.set_raised, !.result = concept_schema,
                                            !.redis = wr.redis]

get_concept_by_id(id, get_raises, set_raises) ==
    LET r == get_concept_by_id_run(id, get_raises, set_raises)
    IN  /\ redis' = r.redis
        /\ vlast' = call_record(r, redis[concept_key(id)].text)
        /\ UNCHANGED <<concept, concept_relationship, concept_ancestor, redis_client>>
        /\ UNCHANGED set_vars
        /\ UNCHANGED search_vars
        /\ UNCHANGED request_vars

(***************************************************************************)
(* VocabularyService.get_related_concepts                                  *)
(***************************************************************************)
\* q1 without its "invalid_reason IS NULL" clause
q1_source_any_validity(concept_id) ==
    {r \in concept_relationship :
        /\ r.concept_id_1 = concept_id
        /\ r.concept_id_2 \in DOMAIN concept /\ concept[r.concept_id_2] # NoRow
        /\ r.relationship_id \in DOMAIN relationship}

\* the source rows q1 selects: direct relationships of concept_id, valid, joined
\* to the related concept and to the relationship type
q1_source(concept_id) ==
    {r \in concept_relationship :
        /\ r.concept_id_1 = concept_id
        /\ r.invalid_reason = NULL
        /\ r.concept_id_2 \in DOMAIN concept /\ concept[r.concept_id_2] # NoRow
        /\ r.relationship_id \in DOMAIN relationship}

q1_row(r) ==
    [concept |-> concept[r.concept_id_2],
     rel_name |-> relationship[r.relationship_id],
     rel_dist |-> 0]

\* the source rows q2 selects: ancestors of concept_id, excluding self
q2_source(concept_id) ==
    {a \in concept_ancestor :
        /\ a.descendant_concept_id = concept_id
        /\ a.ancestor_concept_id # concept_id
        /\ a.ancestor_concept_id \in DOMAIN concept /\ concept[a.ancestor_concept_id] # NoRow}

q2_row(a) ==
    [concept |-> concept[a.ancestor_concept_id],
     rel_name |-> "Ancestor",
     rel_dist |-> a.min_levels_of_separation]

\* the source rows q3 selects: descendants of concept_id, excluding self
q3_source(concept_id) ==
    {a \in concept_ancestor :
        /\ a.ancestor_concept_id = concept_id
        /\ a.descendant_concept_id # concept_id
        /\ a.descendant_concept_id \in DOMAIN concept /\ concept[a.descendant_concept_id] # NoRow}

q3_row(a) ==
    [concept |-> concept[a.descendant_concept_id],
     rel_name |-> "Descendant",
     rel_dist |-> a.min_levels_of_separation]

\* position of concept_id among the records of related_map, 0 when it is not a key
map_index(related_map, concept_id) ==
    IF \E i \in DOMAIN related_map : related_map[i].concept_id = concept_id
    THEN CHOOSE i \in DOMAIN related_map : related_map[i].concept_id = concept_id
    ELSE 0

\* a new record for every row, whether or not the concept is a key of related_map
add_relationship_new_record(related_map, row) ==
    Append(related_map,
           [kind |-> "RelatedConcept",
            concept_id |-> model_validate(row.concept).concept_id,
            concept_name |-> model_validate(row.concept).concept_name,
            relationships |-> <<[relationship_name |-> row.rel_name,
                                 relationship_distance |-> row.rel_dist]>>])

\* _add_relationship: related_map is the insertion-ordered dict, as its list of values
add_relationship(related_map, row) ==
    LET rel_obj == [relationship_name |-> row.rel_name, relationship_distance |-> row.rel_dist]
        withkey == IF map_index(related_map, row.concept.concept_id) = 0
                   THEN Append(related_map,
                               [kind |-> "RelatedConcept",
                                concept_id |-> model_validate(row.concept).concept_id,
                                concept_name |-> model_validate(row.concept).concept_name,
                                relationships |-> <<>>])
                   ELSE related_map
        i == map_index(withkey, row.concept.concept_id)
    IN  [withkey EXCEPT ![i].relationships = Append(@, rel_obj)]

RECURSIVE add_all(_, _)
\* the three "for row in res.all()" loops, over the concatenated rows
add_all(related_map, rows) ==
    IF rows = <<>> THEN related_map
    ELSE add_all(add_relationship(related_map, Head(rows)), Tail(rows))

\* the aggregation, for the row orders o1, o2, o3 the three queries return
related_from_store(o1, o2, o3) ==
    add_all(<<>>, [i \in DOMAIN o1 |-> q1_row(o1[i])]
                  \o [i \in DOMAIN o2 |-> q2_row(o2[i])]
                  \o [i \in DOMAIN o3 |-> q3_row(o3[i])])

\* the try block around redis.get
related_cache_read(id, get_raises) ==
    LET attempted == redis_client
        raised == attempted /\ get_raises
        cached == IF attempted /\ ~raised THEN redis[related_key(id)].text ELSE NoEntry
        decodable == truthy(cached) /\ related_json_valid(cached)
    IN  [get_attempted |-> attempted,
         get_raised |-> raised,
         propagated |-> FALSE,
         hit |-> decodable,
         results |-> IF decodable THEN related_validate_json(cached) ELSE NULL]

\* redis.set outside a try block: its exception leaves the call
related_cache_write_raising(id, results, set_raises) ==
    LET attempted == redis_client
        raised == attempted /\ set_raises
    IN  [set_attempted |-> attempted,
         set_raised |-> raised,
         propagated |-> raised,
         redis |-> IF attempted /\ ~raised
                   THEN [redis EXCEPT ![related_key(id)] =
                            [text |-> related_dump_json(results), ex |-> RELATED_TTL]]
                   ELSE redis]

\* the try block around redis.set
related_cache_write(id, results, set_raises) ==
    LET attempted == redis_client
        raised == attempted /\ set_raises
    IN  [set_attempted |-> attempted,
         set_raised |-> raised,
         propagated |-> FALSE,
         redis |-> IF attempted /\ ~raised
                   THEN [redis EXCEPT ![related_key(id)] =
                            [text |-> related_dump_json(results), ex |-> RELATED_TTL]]
                   ELSE redis]

get_related_concepts_run(id, get_raises, set_raises, o1, o2, o3) ==
    LET rd == related_cache_read(id, get_raises)
        base == [op |-> "get_related_concepts", id |-> id,
                 get_attempted |-> rd.get_attempted, get_raised |-> rd.get_raised,
                 set_attempted |-> FALSE, set_raised |-> FALSE,
                 hit |-> FALSE, db_executes |-> 0,
                 outcome |-> "ok", result |-> NULL, redis |-> redis]
    IN  IF rd.propagated
        THEN [base EXCEPT !.outcome = "RedisError"]
        ELSE IF rd.hit
        THEN [base EXCEPT !.hit = TRUE, !.result = rd.results]
        ELSE LET results == related_from_store(o1, o2, o3)
                 wr == related_cache_write(id, results, set_raises)
             IN  IF wr.propagated
                 THEN [base EXCEPT !.db_executes = 3, !.set_attempted = wr.set_attempted,
                                   !.set_raised = wr.set_raised, !.outcome = "RedisError",
                                   !.redis = wr.redis]
                 ELSE [base EXCEPT !.db_executes = 3, !.set_attempted = wr.set_attempted,
                                   !.set_raised = wr.set_raised, !.result = results,
                                   !.redis = wr.redis]

get_related_concepts(id, get_raises, set_raises) ==
    \E o1 \in Perms(q1_source(id)), o2 \in Perms(q2_source(id)), o3 \in Perms(q3_source(id)) :
        LET r == get_related_concepts_run(id, get_raises, set_raises, o1, o2, o3)
        IN  /\ redis' = r.redis
            /\ vlast' = call_record(r, redis[related_key(id)].text)
            /\ UNCHANGED <<concept, concept_relationship, concept_ancestor, redis_client>>
            /\ UNCHANGED set_vars
            /\ UNCHANGED search_vars
            /\ UNCHANGED request_vars

(***************************************************************************)
(* Character strings                                                       *)
(***************************************************************************)
\* a str is the sequence of its characters
UpperCaseLetters ==
    <<"A", "B", "C", "D", "E", "F", "G", "H", "I", "J", "K", "L", "M", "N", "O", "P", "Q", "R", "S", "T", "U", "V", "W", "X", "Y", "Z">>

LowerCaseLetters ==
    <<"a", "b", "c", "d", "e", "f", "g", "h", "i", "j", "k", "l", "m", "n", "o", "p", "q", "r", "s", "t", "u", "v", "w", "x", "y", "z">>

lower_char(c) ==
    IF \E i \in DOMAIN UpperCaseLetters : UpperCaseLetters[i] = c
    THEN LowerCaseLetters[CHOOSE i \in DOMAIN UpperCaseLetters : UpperCaseLetters[i] = c]
    ELSE c

\* str.lower() and SQL lower()
lower(s) == [i \in DOMAIN s |-> lower_char(s[i])]

is_space(c) == c = " "

RECURSIVE split_from(_, _, _)
\* the scan of str.split(): cur is the word being read, acc the words read
split_from(s, cur, acc) ==
    IF s = <<>> THEN (IF cur = <<>> THEN acc ELSE Append(acc, cur))
    ELSE IF is_space(Head(s))
         THEN split_from(Tail(s), <<>>, IF cur = <<>> THEN acc ELSE Append(acc, cur))
         ELSE split_from(Tail(s), Append(cur, Head(s)), acc)

RECURSIVE split_sep_from(_, _, _)
\* the scan of str.split(" "): every single space ends a word, an empty one included
split_sep_from(s, cur, acc) ==
    IF s = <<>> THEN Append(acc, cur)
    ELSE IF is_space(Head(s))
         THEN split_sep_from(Tail(s), <<>>, Append(acc, cur))
         ELSE split_sep_from(Tail(s), Append(cur, Head(s)), acc)

\* str.split(" ")
split_on_single_space(s) == split_sep_from(s, <<>>, <<>>)

\* str.split(): the words between runs of whitespace
split(s) == split_from(s, <<>>, <<>>)

RECURSIVE sql_replace(_, _)
\* SQL REPLACE(s, t, ''): every occurrence of t, left to right, is removed; an empty t
\* leaves s as it is
sql_replace(s, t) ==
    IF t = <<>> \/ Len(s) < Len(t) THEN s
    ELSE IF SubSeq(s, 1, Len(t)) = t
         THEN sql_replace(SubSeq(s, Len(t) + 1, Len(s)), t)
         ELSE <<Head(s)>> \o sql_replace(Tail(s), t)

RECURSIVE like(_, _)
\* SQL "s LIKE p": % in p stands for any run of characters, _ for any one character
like(s, p) ==
    IF p = <<>> THEN s = <<>>
    ELSE IF Head(p) = "%"
         THEN like(s, Tail(p)) \/ (s # <<>> /\ like(Tail(s), p))
         ELSE /\ s # <<>>
              /\ (Head(p) = "_" \/ Head(p) = Head(s))
              /\ like(Tail(s), Tail(p))

\* column.ilike(f"%{text}%"): the text is put into the pattern as it is
ilike_contains(col, text) == like(lower(col), <<"%">> \o lower(text) \o <<"%">>)

is_alnum(c) == c \notin {" ", "-", "_", "%"}

RECURSIVE lexemes_from(_, _, _)
lexemes_from(s, cur, acc) ==
    IF s = <<>> THEN (IF cur = <<>> THEN acc ELSE acc \cup {cur})
    ELSE IF is_alnum(Head(s))
         THEN lexemes_from(Tail(s), Append(cur, Head(s)), acc)
         ELSE lexemes_from(Tail(s), <<>>, IF cur = <<>> THEN acc ELSE acc \cup {cur})

\* the lexemes of to_tsvector / plainto_tsquery: the lowercased words of the text
\* (the stemmer and the stop word list of the 'english' configuration are left out)
lexemes(s) == lexemes_from(lower(s), <<>>, {})

\* to_tsvector('english', col) @@ plainto_tsquery('english', text): every lexeme of the
\* text is a lexeme of the column; a query without lexemes matches nothing
fts_condition(col, text) == lexemes(text) # {} /\ lexemes(text) \subseteq lexemes(col)

(***************************************************************************)
(* The vocabulary searched                                                 *)
(***************************************************************************)
\* the rows of table concept the searches run over
ConceptTable ==
 <<
    [kind |-> "Concept", concept_id |-> 1,
     \* "Test Concept"
     concept_name |-> <<"T", "e", "s", "t", " ", "C", "o", "n", "c", "e", "p", "t">>,
     concept_code |-> <<"T", "1">>,
     domain_id |-> "Condition", vocabulary_id |-> "SNOMED", concept_class_id |-> "Clinical Finding",
     standard_concept |-> Str("S"), invalid_reason |-> NULL],
    [kind |-> "Concept", concept_id |-> 2,
     \* "Test Concept Extended"
     concept_name |-> <<"T", "e", "s", "t", " ", "C", "o", "n", "c", "e", "p", "t", " ", "E", "x", "t", "e", "n", "d", "e", "d">>,
     concept_code |-> <<"9", "9", "9">>,
     domain_id |-> "Condition", vocabulary_id |-> "SNOMED", concept_class_id |-> "Clinical Finding",
     standard_concept |-> NULL, invalid_reason |-> NULL],
    [kind |-> "Concept", concept_id |-> 3,
     \* "Extending"
     concept_name |-> <<"E", "x", "t", "e", "n", "d", "i", "n", "g">>,
     concept_code |-> <<"t", "e", "s", "9">>,
     domain_id |-> "Drug", vocabulary_id |-> "RxNorm", concept_class_id |-> "Ingredient",
     standard_concept |-> Str("C"), invalid_reason |-> Str("D")],
    [kind |-> "Concept", concept_id |-> 4,
     \* "Test Concept Test-Concept"
     concept_name |-> <<"T", "e", "s", "t", " ", "C", "o", "n", "c", "e", "p", "t", " ", "T", "e", "s", "t", "-", "C", "o", "n", "c", "e", "p", "t">>,
     concept_code |-> <<"T", "4">>,
     domain_id |-> "Drug", vocabulary_id |-> "RxNorm", concept_class_id |-> "Ingredient",
     standard_concept |-> Str("S"), invalid_reason |-> Str("U")],
    [kind |-> "Concept", concept_id |-> 5,
     \* "X-ray"
     concept_name |-> <<"X", "-", "r", "a", "y">>,
     concept_code |-> <<"X", "5">>,
     domain_id |-> "Procedure", vocabulary_id |-> "SNOMED", concept_class_id |-> "Procedure",
     standard_concept |-> NULL, invalid_reason |-> NULL]
 >>

\* the rows of table concept_synonym
ConceptSynonymRows ==
    { \* "Trial Idea"
      [concept_id |-> 1, concept_synonym_name |-> <<"T", "r", "i", "a", "l", " ", "I", "d", "e", "a">>],
      \* "Test run"
      [concept_id |-> 1, concept_synonym_name |-> <<"T", "e", "s", "t", " ", "r", "u", "n">>],
      \* "Test film"
      [concept_id |-> 5, concept_synonym_name |-> <<"T", "e", "s", "t", " ", "f", "i", "l", "m">>] }

\* ConceptSearch.query: "", "Test Concept", " Test  Concept ", "tes", "t_st",
\* "extended xy", "onc cep endi", "TEST" and "  "
Queries ==
    { <<>>,
      <<"T", "e", "s", "t", " ", "C", "o", "n", "c", "e", "p", "t">>,
      <<" ", "T", "e", "s", "t", " ", " ", "C", "o", "n", "c", "e", "p", "t", " ">>,
      <<"t", "e", "s">>,
      <<"t", "_", "s", "t">>,
      <<"e", "x", "t", "e", "n", "d", "e", "d", " ", "x", "y">>,
      <<"o", "n", "c", " ", "c", "e", "p", " ", "e", "n", "d", "i">>,
      <<"T", "E", "S", "T">>,
      <<" ", " ">> }

(***************************************************************************)
(* VocabularyService.search_concepts                                       *)
(***************************************************************************)
\* self.db.bind.dialect.name
Dialects == {"postgresql", "sqlite"}

\* the order in which the store scans table concept when the statement does not fix one
ScanOrders == {"asc", "desc"}

table_scan(scan_order) ==
    LET n == Cardinality(DOMAIN concept)
    IN  [i \in 1..n |-> IF scan_order = "asc" THEN concept[i] ELSE concept[n + 1 - i]]

\* "if search.standard_concept:" on an Optional[str]
given(value) == value # None /\ value[1] # ""

\* the flag compared with the value given, the sentinel "N" included
standard_concept_condition_literal(row, value) == row.standard_concept = Str(value)

\* ConceptModel.standard_concept.is_(None) for "N", == value otherwise
standard_concept_condition(row, value) ==
    IF value = "N" THEN row.standard_concept = NULL ELSE row.standard_concept = Str(value)

\* the invalid reason compared with the value given, the sentinel "V" included
invalid_reason_condition_literal(row, value) == row.invalid_reason = Str(value)

\* ConceptModel.invalid_reason.is_(None) for "V", == value otherwise
invalid_reason_condition(row, value) ==
    IF value = "V" THEN row.invalid_reason = NULL ELSE row.invalid_reason = Str(value)

\* _apply_filters: the WHERE clauses it adds, as a condition on a row of concept
apply_filters(row, search) ==
    /\ search.vocabulary_id # <<>> => row.vocabulary_id \in Range(search.vocabulary_id)
    /\ search.domain_id # <<>> => row.domain_id \in Range(search.domain_id)
    /\ search.concept_class_id # <<>> => row.concept_class_id \in Range(search.concept_class_id)
    /\ given(search.standard_concept)
         => standard_concept_condition(row, search.standard_concept[1])
    /\ given(search.invalid_reason)
         => invalid_reason_condition(row, search.invalid_reason[1])

\* stmt.limit(limit).offset(offset), the arguments as they were passed; where the
\* store accepts a negative count (SQLite) a negative LIMIT is no limit and a
\* negative OFFSET skips nothing
limit_offset(rows, limit, offset) ==
    LET skipped == IF offset < 0 THEN 0 ELSE offset
        upto == IF limit < 0 \/ skipped + limit > Len(rows) THEN Len(rows) ELSE skipped + limit
    IN  SubSeq(rows, skipped + 1, upto)

\* await self.db.execute(stmt): PostgreSQL rejects a negative LIMIT or OFFSET
\* and the driver's error leaves search_concepts
execute_raises(limit, offset, dialect) ==
    dialect = "postgresql" /\ (limit < 0 \/ offset < 0)

\* the WHERE clause of the free-text query in default mode
query_condition(row, query, dialect) ==
    IF dialect = "postgresql"
    THEN fts_condition(row.concept_name, query) \/ ilike_contains(row.concept_code, query)
    ELSE ilike_contains(row.concept_name, query) \/ ilike_contains(row.concept_code, query)

\* search_concepts past the lexical branch: the rows of the statement
search_default(search, limit, offset, dialect, scan_order) ==
    LET selected == SelectSeq(table_scan(scan_order),
                        LAMBDA row : /\ search.query # <<>> => query_condition(row, search.query, dialect)
                                     /\ apply_filters(row, search))
    IN  limit_offset(selected, limit, offset)

\* search.query.lower().split()
search_terms(query) == split(lower(query))

\* the prefixes taken of the terms below LONG_TERM_LEN characters instead
truncated_terms_of_short(query) ==
    {SubSeq(t, 1, IF Len(t) < TRUNCATED_LEN THEN Len(t) ELSE TRUNCATED_LEN) :
        t \in {x \in Range(search_terms(query)) : Len(x) < LONG_TERM_LEN}}

\* [t[:6] for t in search_terms if len(t) >= 8]
truncated_terms(query) ==
    {SubSeq(t, 1, TRUNCATED_LEN) : t \in {x \in Range(search_terms(query)) : Len(x) >= LONG_TERM_LEN}}

\* sorted(list(set(search_terms + truncated_terms)), key=len, reverse=True): the sort is
\* stable over the iteration order of a set of str, which the interpreter's hash seed
\* fixes, so terms of one length come in any order
all_terms_choices(query) ==
    {o \in Perms(Range(search_terms(query)) \cup truncated_terms(query)) :
        \A i, j \in DOMAIN o : i < j => Len(o[i]) >= Len(o[j])}

RECURSIVE replace_all(_, _)
\* func.replace(..., term, "") for every term of term_map, in its order
replace_all(s, all_terms) ==
    IF all_terms = <<>> THEN s
    ELSE replace_all(sql_replace(s, Head(all_terms)), Tail(all_terms))

\* the terms removed from concept_name as stored, without func.lower
replace_expr_name_no_lower(row, all_terms) == replace_all(row.concept_name, all_terms)

\* replace_expr_name: the terms removed from func.lower(concept_name)
replace_expr_name(row, all_terms) == replace_all(lower(row.concept_name), all_terms)

\* func.replace(func.replace(col, " ", ""), "-", "")
clean_str(col) == sql_replace(sql_replace(col, <<" ">>), <<"-">>)

c_len(row) == Len(clean_str(row.concept_name))

r_len(row, all_terms) == Len(clean_str(replace_expr_name(row, all_terms)))

\* case((c_len > 0, 1.0 - r_len / c_len), else_=0.0), as the fraction num / den
ratio_score(row, all_terms) ==
    IF c_len(row) > 0
    THEN [num |-> c_len(row) - r_len(row, all_terms), den |-> c_len(row)]
    ELSE [num |-> 0, den |-> 1]

\* ascending order: x may stand before y when score x <= score y
ratio_score_asc(x, y) == x.num * y.den <= y.num * x.den

\* ratio_score.desc(): x may stand before y when score x >= score y
ratio_score_desc(x, y) == x.num * y.den >= y.num * x.den

RECURSIVE insert_by_score(_, _, _)
insert_by_score(sorted, row, all_terms) ==
    IF sorted = <<>> THEN <<row>>
    ELSE IF ratio_score_desc(ratio_score(Head(sorted), all_terms), ratio_score(row, all_terms))
         THEN <<Head(sorted)>> \o insert_by_score(Tail(sorted), row, all_terms)
         ELSE <<row>> \o sorted

RECURSIVE order_by(_, _)
\* stmt.order_by(ratio_score.desc()): rows of equal score stay in the order of the scan
order_by(rows, all_terms) ==
    IF rows = <<>> THEN <<>>
    ELSE insert_by_score(order_by(SubSeq(rows, 1, Len(rows) - 1), all_terms),
                         rows[Len(rows)], all_terms)

\* the terms with len(term) < 8, which name_filters and synonym_filters are built from
filter_terms(all_terms) == {t \in Range(all_terms) : Len(t) < LONG_TERM_LEN}

\* the where clause put on q_concept also when there is no filter term
q_concept_where_always(all_terms) ==
    {id \in DOMAIN concept :
        /\ concept[id] # NoRow
        /\ \E t \in filter_terms(all_terms) : ilike_contains(concept[id].concept_name, t)}

\* q_concept: the concept ids whose name is ILIKE one of the filter terms (every id when
\* there is no filter)
q_concept(all_terms) ==
    {id \in DOMAIN concept :
        /\ concept[id] # NoRow
        /\ filter_terms(all_terms) # {}
             => \E t \in filter_terms(all_terms) : ilike_contains(concept[id].concept_name, t)}

\* the rows of concept_synonym that q_synonym selects: those ILIKE one of the filter
\* terms (every row when there is no filter)
q_synonym_rows(all_terms) ==
    {r \in concept_synonym :
        filter_terms(all_terms) # {}
            => \E t \in filter_terms(all_terms) : ilike_contains(r.concept_synonym_name, t)}

\* q_synonym: the concept ids of the synonyms ILIKE one of the filter terms
q_synonym(all_terms) == {s.concept_id : s \in q_synonym_rows(all_terms)}

\* union(q_concept, q_synonym)
matched_ids(all_terms) == q_concept(all_terms) \cup q_synonym(all_terms)

\* UNION ALL of the two selects: a row of the subquery for every row either selects
union_all(all_terms) ==
    [id \in matched_ids(all_terms) |->
        (IF id \in q_concept(all_terms) THEN 1 ELSE 0)
        + Cardinality({r \in q_synonym_rows(all_terms) : r.concept_id = id})]

\* union(q_concept, q_synonym).subquery(): the number of rows of the subquery for each
\* matched_concept, UNION keeping one row of each value
matched_ids_subquery(all_terms) ==
    [id \in matched_ids(all_terms) |-> 1]

\* the row n times
repeated(row, n) == [i \in 1..n |-> row]

RECURSIVE join(_, _)
\* select(ConceptModel).join(matched_ids_subquery, concept_id == matched_concept): a row
\* for every pair of a concept and a row of the subquery with its id
join(rows, subquery) ==
    IF rows = <<>> THEN <<>>
    ELSE LET row == Head(rows)
         IN  (IF row.concept_id \in DOMAIN subquery
              THEN repeated(row, subquery[row.concept_id]) ELSE <<>>)
             \o join(Tail(rows), subquery)

\* _search_lexical: the rows of the statement
search_lexical(search, limit, offset, all_terms, scan_order) ==
    LET joined == SelectSeq(join(table_scan(scan_order), matched_ids_subquery(all_terms)),
                      LAMBDA row : apply_filters(row, search))
    IN  limit_offset(order_by(joined, all_terms), limit, offset)

\* search_concepts: the list of schema objects it returns
search_concepts_run(search, limit, offset, dialect, all_terms, scan_order) ==
    LET rows == IF search.is_lexical /\ search.query # <<>>
                THEN search_lexical(search, limit, offset, all_terms, scan_order)
                ELSE search_default(search, limit, offset, dialect, scan_order)
    IN  [i \in DOMAIN rows |-> model_validate(rows[i])]

Pending == [kind |-> "pending"]

search_concepts ==
    /\ search_result = Pending
    /\ \E all_terms \in all_terms_choices(search_call.search.query), scan_order \in ScanOrders :
          search_result' =
              IF execute_raises(search_call.limit, search_call.offset, search_call.dialect)
              THEN [kind |-> "raised", error |-> "DBAPIError", rows |-> <<>>,
                    all_terms |-> all_terms, scan_order |-> scan_order]
              ELSE [kind |-> "returned",
                    rows |-> search_concepts_run(search_call.search, search_call.limit,
                                                 search_call.offset, search_call.dialect,
                                                 all_terms, scan_order),
                    all_terms |-> all_terms,
                    scan_order |-> scan_order]
    /\ UNCHANGED <<concept, concept_relationship, concept_ancestor, redis_client, redis, vlast>>
    /\ UNCHANGED <<concept_synonym, search_call>>
    /\ UNCHANGED set_vars
    /\ UNCHANGED request_vars

\* the criteria other than the query, the two flags and the mode
OtherCriteria ==
    { [domain_id |-> <<>>, vocabulary_id |-> <<>>, concept_class_id |-> <<>>],
      [domain_id |-> <<"Condition", "Drug">>, vocabulary_id |-> <<"SNOMED">>,
       concept_class_id |-> <<>>],
      [domain_id |-> <<"Drug">>, vocabulary_id |-> <<"RxNorm", "SNOMED">>,
       concept_class_id |-> <<"Ingredient">>],
      [domain_id |-> <<"Condition">>, vocabulary_id |-> <<"RxNorm">>,
       concept_class_id |-> <<>>] }

StandardConceptValues == {None, Some(""), Some("N"), Some("S"), Some("C"), Some("s")}

InvalidReasonValues == {None, Some("V"), Some("D"), Some("U")}

ConceptSearch(query, other, standard_concept, invalid_reason, is_lexical) ==
    [query |-> query, domain_id |-> other.domain_id, vocabulary_id |-> other.vocabulary_id,
     concept_class_id |-> other.concept_class_id, standard_concept |-> standard_concept,
     invalid_reason |-> invalid_reason, is_lexical |-> is_lexical]

\* the limits a search is called with: none, a page, and every row of the table
Limits == {0, 2, MaxLimit}

\* the limits and offsets a caller of the service can pass: any int
AnyLimits == {-1} \cup Limits

AnyOffsets == -1..MaxOffset

Searches ==
    {ConceptSearch(query, other, standard_concept, invalid_reason, is_lexical) :
        query \in Queries, other \in OtherCriteria,
        standard_concept \in StandardConceptValues, invalid_reason \in InvalidReasonValues,
        is_lexical \in BOOLEAN}

\* the searches with a query and a mode only
QuerySearches ==
    {ConceptSearch(query, [domain_id |-> <<>>, vocabulary_id |-> <<>>, concept_class_id |-> <<>>],
                   None, None, is_lexical) :
        query \in Queries, is_lexical \in BOOLEAN}

\* the calls of search_concepts: every search with the pages the endpoints let
\* through, and the searches by query with any int as limit and offset
SearchCalls ==
    [search : Searches, limit : Limits, offset : 0..MaxOffset, dialect : Dialects]
    \cup [search : QuerySearches, limit : AnyLimits, offset : AnyOffsets, dialect : Dialects]

(***************************************************************************)
(* The cache server                                                        *)
(***************************************************************************)
\* an entry set with ex=... reaches its time to live and is dropped by Redis
expire(key) ==
    /\ redis[key].text # NoEntry
    /\ redis[key].ex > 0
    /\ redis' = [redis EXCEPT ![key] = [text |-> NoEntry, ex |-> 0]]
    /\ UNCHANGED <<concept, concept_relationship, concept_ancestor, redis_client, vlast>>
    /\ UNCHANGED set_vars
    /\ UNCHANGED search_vars
    /\ UNCHANGED request_vars

\* texts a cache shared with other writers can hold under a key: an empty string,
\* an undecodable text, a concept of an earlier vocabulary load, an earlier related list
ForeignTexts(key) ==
    IF key[1] = "concept"
    THEN { [kind |-> "empty_string"], [kind |-> "garbage"],
           [kind |-> "json_object", concept_id |-> key[2], concept_name |-> "previous"] }
    ELSE { [kind |-> "garbage"],
           [kind |-> "json_array",
            elems |-> << [kind |-> "RelatedConcept", concept_id |-> key[2],
                          concept_name |-> "previous",
                          relationships |-> << [relationship_name |-> "Ancestor",
                                                relationship_distance |-> 1] >>] >>] }

\* the mocked redis.get of the tests: the key holds a text the service did not write
foreign_cache_write(key, text) ==
    /\ redis_client
    /\ Cardinality({k \in RedisKeys \ {key} : redis[k].text \in ForeignTexts(k)}) < MaxForeign
    /\ redis' = [redis EXCEPT ![key] = [text |-> text, ex |-> CONCEPT_TTL]]
    /\ UNCHANGED <<concept, concept_relationship, concept_ancestor, redis_client, vlast>>
    /\ UNCHANGED set_vars
    /\ UNCHANGED search_vars
    /\ UNCHANGED request_vars

(***************************************************************************)
(* Concept set tables and the store's constraints                          *)
(***************************************************************************)
\* ConceptSet.concept_set_name is mapped_column(String(255)): no unique=True
concept_set_name_unique == FALSE

\* the tables of one database view
EmptyTables == [concept_set |-> {}, concept_set_item |-> <<>>]

SetRow(id, name, user_id) ==
    [concept_set_id |-> id, concept_set_name |-> name, created_by_id |-> user_id]

\* ConceptSetItem(concept_set_id=..., concept_id=..., is_excluded=..., ...)
ItemRow(set_id, item_data) ==
    [concept_set_id |-> set_id, concept_id |-> item_data.concept_id,
     is_excluded |-> item_data.is_excluded,
     include_descendants |-> item_data.include_descendants,
     include_mapped |-> item_data.include_mapped]

\* select(ConceptSet).where(ConceptSet.concept_set_id == id) ... .first()
find_set(tables, id) ==
    IF \E r \in tables.concept_set : r.concept_set_id = id
    THEN CHOOSE r \in tables.concept_set : r.concept_set_id = id
    ELSE NoRow

\* the rows of concept_set_item of one set, in table order (ConceptSet.items)
RECURSIVE items_of(_, _)
items_of(item_table, set_id) ==
    IF item_table = <<>> THEN <<>>
    ELSE IF Head(item_table).concept_set_id = set_id
         THEN <<Head(item_table)>> \o items_of(Tail(item_table), set_id)
         ELSE items_of(Tail(item_table), set_id)

\* concept_set_item without the rows of one set (delete-orphan cascade)
RECURSIVE items_without(_, _)
items_without(item_table, set_id) ==
    IF item_table = <<>> THEN <<>>
    ELSE IF Head(item_table).concept_set_id = set_id
         THEN items_without(Tail(item_table), set_id)
         ELSE <<Head(item_table)>> \o items_without(Tail(item_table), set_id)

NoError == [kind |-> "none"]

\* the text of the INSERT the flush of a new ConceptSet emits, as tokens
InsertConceptSetSQL ==
    <<"INSERT INTO", "concept_set", "(", "concept_set_name", "description", "created_by_id",
      "modified_by_id", "created_date", "modified_date", ")", "VALUES">>

\* the text of the UPDATE the flush of a renamed ConceptSet emits, as tokens
UpdateConceptSetSQL ==
    <<"UPDATE", "concept_set", "SET", "concept_set_name", "=", "?", "WHERE",
      "concept_set", ".", "concept_set_id", "=", "?">>

IntegrityError(orig, statement) ==
    [kind |-> "IntegrityError", orig |-> orig, statement |-> statement]

\* str(e) of a sqlalchemy IntegrityError: the driver's message, then [SQL: statement]
str_of(e) == e.orig \o <<"[SQL:">> \o e.statement \o <<"]">>

\* Python's "needle in text", on tokens
contains(text, needle) == \E i \in DOMAIN text : text[i] = needle

\* the constraints the store checks when a concept_set row is inserted
insert_error(tables, row) ==
    IF concept_set_name_unique
       /\ \E r \in tables.concept_set : r.concept_set_name = row.concept_set_name
    THEN IntegrityError(<<"UNIQUE constraint failed", ":", "concept_set", ".", "concept_set_name">>,
                        InsertConceptSetSQL)
    ELSE IF row.created_by_id \notin users
    THEN IntegrityError(<<"FOREIGN KEY constraint failed">>, InsertConceptSetSQL)
    ELSE NoError

\* the constraints the store checks when a concept_set row is renamed
update_error(tables, id, name) ==
    IF concept_set_name_unique
       /\ \E r \in tables.concept_set : r.concept_set_id # id /\ r.concept_set_name = name
    THEN IntegrityError(<<"UNIQUE constraint failed", ":", "concept_set", ".", "concept_set_name">>,
                        UpdateConceptSetSQL)
    ELSE NoError

\* the except IntegrityError clause of create and update: the exception raised
classify(e) ==
    IF contains(str_of(e), "concept_set_name") \/ contains(str_of(e), "UNIQUE constraint failed")
    THEN "DuplicateResourceError"
    ELSE "IntegrityError"

(***************************************************************************)
(* ConceptSetService                                                       *)
(***************************************************************************)
Names == {"A", "B"}

ItemData(concept_id, flag) ==
    [concept_id |-> concept_id, is_excluded |-> flag,
     include_descendants |-> flag, include_mapped |-> FALSE]

\* the item lists the operations are called with
ItemLists ==
    { <<>>,
      <<ItemData(1, FALSE)>>,
      <<ItemData(1, FALSE), ItemData(2, TRUE)>>,
      <<ItemData(1, FALSE), ItemData(1, TRUE)>>,
      <<ItemData(1, FALSE), ItemData(MissingConceptId, FALSE)>>,
      <<ItemData(MissingConceptId, FALSE), ItemData(MissingConceptId, TRUE)>> }

UserIds == {1, 2}

concept_ids_in_input(items) == [i \in DOMAIN items |-> items[i].concept_id]

\* the duplicate check comparing the set with itself
has_duplicates_never(items) ==
    Cardinality(Range(concept_ids_in_input(items))) # Cardinality(Range(concept_ids_in_input(items)))

\* len(concept_ids_in_input) != len(set(concept_ids_in_input))
has_duplicates(items) ==
    Len(concept_ids_in_input(items)) # Cardinality(Range(concept_ids_in_input(items)))

\* the difference taken the wrong way round, then the input reported
missing_ids_all(items) ==
    IF \E c \in Range(concept_ids_in_input(items)) : c \notin DOMAIN concept \/ concept[c] = NoRow
    THEN Range(concept_ids_in_input(items))
    ELSE {}

\* set(concept_ids_in_input) - existing_ids
missing_ids(items) ==
    {c \in Range(concept_ids_in_input(items)) : c \notin DOMAIN concept \/ concept[c] = NoRow}

\* _validate_items: the exception it raises, if any
validate_items(items) ==
    IF has_duplicates(items)
    THEN [outcome |-> "ValidationError", missing |-> {}]
    ELSE IF missing_ids(items) # {}
    THEN [outcome |-> "ConceptNotFound", missing |-> missing_ids(items)]
    ELSE [outcome |-> "ok", missing |-> {}]

\* the rows added with the flags of the column defaults instead of those of the input
new_items_default_flags(set_id, items) ==
    [i \in DOMAIN items |->
        ItemRow(set_id, [concept_id |-> items[i].concept_id, is_excluded |-> FALSE,
                         include_descendants |-> FALSE, include_mapped |-> FALSE])]

\* the rows "for item_data in data.items: self.db.add(ConceptSetItem(...))" adds
new_items(set_id, items) == [i \in DOMAIN items |-> ItemRow(set_id, items[i])]

\* what the caller observes of one call: the exception raised (or "ok"), the ids a
\* ConceptNotFound carries, and the id of the set returned
Outcome(op, id, outcome, missing) ==
    [op |-> op, id |-> id, outcome |-> outcome, missing |-> missing]

create_concept_set(name, items, user_id) ==
    LET v == validate_items(items)
        new_concept_set == SetRow(next_set_id, name, user_id)
        e == insert_error(session, new_concept_set)
        flushed == [session EXCEPT !.concept_set = @ \cup {new_concept_set}]
        done == [flushed EXCEPT !.concept_set_item = @ \o new_items(next_set_id, items)]
    IN  /\ next_set_id <= MaxSetId
        /\ IF v.outcome # "ok"
           THEN /\ last' = Outcome("create", 0, v.outcome, v.missing)
                /\ UNCHANGED <<committed, session, next_set_id>>
           ELSE IF e # NoError
           THEN \* await self.db.rollback(), then raise
                /\ session' = committed
                /\ next_set_id' = next_set_id + 1
                /\ last' = Outcome("create", 0, classify(e), {})
                /\ UNCHANGED committed
           ELSE \* items added, await self.db.commit()
                /\ committed' = done
                /\ session' = done
                /\ next_set_id' = next_set_id + 1
                /\ last' = Outcome("create", next_set_id, "ok", {})
        /\ UNCHANGED users
        /\ UNCHANGED vocab_vars
        /\ UNCHANGED search_vars
        /\ UNCHANGED request_vars

get_concept_set(concept_set_id) ==
    /\ last' = Outcome("get", concept_set_id,
                       IF find_set(session, concept_set_id) = NoRow THEN "ValidationError" ELSE "ok",
                       {})
    /\ UNCHANGED <<users, committed, session, next_set_id>>
    /\ UNCHANGED vocab_vars
    /\ UNCHANGED search_vars
    /\ UNCHANGED request_vars

\* the session after "concept_set.concept_set_name = data.name" and a successful flush
renamed(tables, id, name) ==
    [tables EXCEPT !.concept_set =
        {IF r.concept_set_id = id THEN [r EXCEPT !.concept_set_name = name] ELSE r : r \in @}]

\* the new items added without "concept_set.items.clear()"
replaced_appending(tables, id, items) ==
    [tables EXCEPT !.concept_set_item = @ \o new_items(id, items)]

\* the session after "concept_set.items.clear()" and the adds of the new items
replaced(tables, id, items) ==
    [tables EXCEPT !.concept_set_item = items_without(@, id) \o new_items(id, items)]

\* "if data.items:", which takes an empty list for an omitted one
items_given_truthy(items) == items # None /\ items[1] # <<>>

\* "if data.items is not None"
items_given(items) == items # None

update_concept_set(concept_set_id, name, items) ==
    LET concept_set == find_set(session, concept_set_id)
        rename == name # None /\ name[1] # "" /\ name[1] # concept_set.concept_set_name
        e == IF rename THEN update_error(session, concept_set_id, name[1]) ELSE NoError
        after_name == IF rename THEN renamed(session, concept_set_id, name[1]) ELSE session
        v == IF items_given(items) THEN validate_items(items[1])
             ELSE [outcome |-> "ok", missing |-> {}]
        after_items == IF items_given(items) THEN replaced(after_name, concept_set_id, items[1])
                       ELSE after_name
    IN  /\ IF concept_set = NoRow
           THEN /\ last' = Outcome("update", concept_set_id, "ValidationError", {})
                /\ UNCHANGED <<committed, session>>
           ELSE IF e # NoError
           THEN \* await self.db.rollback(), then raise
                /\ session' = committed
                /\ last' = Outcome("update", concept_set_id, classify(e), {})
                /\ UNCHANGED committed
           ELSE IF v.outcome # "ok"
           THEN \* _validate_items raises after the rename was flushed
                /\ session' = after_name
                /\ last' = Outcome("update", concept_set_id, v.outcome, v.missing)
                /\ UNCHANGED committed
           ELSE \* await self.db.commit()
                /\ committed' = after_items
                /\ session' = after_items
                /\ last' = Outcome("update", concept_set_id, "ok", {})
        /\ UNCHANGED <<users, next_set_id>>
        /\ UNCHANGED vocab_vars
        /\ UNCHANGED search_vars
        /\ UNCHANGED request_vars

\* the DELETE of the concept_set row alone, its items left in concept_set_item
deleted_row_only(tables, id) ==
    [tables EXCEPT !.concept_set = {r \in @ : r.concept_set_id # id}]

\* the session after "await self.db.delete(concept_set)": the row is deleted and, by
\* cascade="all, delete-orphan" of ConceptSet.items, so are its items
deleted(tables, id) ==
    [concept_set |-> {r \in tables.concept_set : r.concept_set_id # id},
     concept_set_item |-> items_without(tables.concept_set_item, id)]

delete_concept_set(concept_set_id) ==
    LET concept_set == find_set(session, concept_set_id)
    IN  /\ IF concept_set = NoRow
           THEN /\ last' = Outcome("delete", concept_set_id, "ValidationError", {})
                /\ UNCHANGED <<committed, session>>
           ELSE /\ committed' = deleted(session, concept_set_id)
                /\ session' = deleted(session, concept_set_id)
                /\ last' = Outcome("delete", concept_set_id, "ok", {})
        /\ UNCHANGED <<users, next_set_id>>
        /\ UNCHANGED vocab_vars
        /\ UNCHANGED search_vars
        /\ UNCHANGED request_vars

\* get_db: leaving "async with async_session_maker() as session" closes the session,
\* which rolls back what it had not committed
close_session ==
    /\ session # committed
    /\ session' = committed
    /\ UNCHANGED <<users, committed, next_set_id, last>>
    /\ UNCHANGED vocab_vars
    /\ UNCHANGED search_vars
    /\ UNCHANGED request_vars

(***************************************************************************)
(* update_concept_set, served to two requests at once. Each request has    *)
(* its own AsyncSession (get_db) and runs up to its next await; the store  *)
(* is PostgreSQL at its default isolation level, READ COMMITTED            *)
(* (DATABASE_URL, create_async_engine without isolation_level).            *)
(***************************************************************************)
Requests == {1, 2}

NoRequest ==
    [pc |-> "start", concept_set_id |-> 0, items |-> <<>>, loaded |-> {}, outcome |-> "none"]

\* no primary key handed out: the key of each row of concept_set_item, in table order,
\* and the next value of the sequence
NoItemIds == [keys |-> <<>>, next |-> 1]

\* the primary keys of the items of one set (the ConceptSetItem objects selectinload
\* puts into concept_set.items)
RECURSIVE keys_of(_, _, _)
keys_of(item_table, keys, set_id) ==
    IF item_table = <<>> THEN {}
    ELSE (IF Head(item_table).concept_set_id = set_id THEN {Head(keys)} ELSE {})
         \cup keys_of(Tail(item_table), Tail(keys), set_id)

\* concept_set_item after DELETE ... WHERE concept_set_item_id = ? for each key: a key
\* that matches no row deletes nothing (the ORM warns and goes on)
RECURSIVE delete_by_key(_, _, _)
delete_by_key(item_table, keys, gone) ==
    IF item_table = <<>> THEN <<>>
    ELSE (IF Head(keys) \in gone THEN <<>> ELSE <<Head(item_table)>>)
         \o delete_by_key(Tail(item_table), Tail(keys), gone)

\* the keys the store gives to n inserted rows
inserted_keys(n) == [i \in 1..n |-> item_ids.next + i - 1]

\* concept_set = await self.get_concept_set(concept_set_id), with data.name omitted and
\* data.items given
update_query(r) ==
    /\ requests[r].pc = "start"
    /\ \E id \in 1..MaxSetId, items \in ItemLists :
          requests' = [requests EXCEPT ![r] =
              IF find_set(committed, id) = NoRow
              THEN [pc |-> "done", concept_set_id |-> id, items |-> items, loaded |-> {},
                    outcome |-> "ValidationError"]
              ELSE [pc |-> "queried", concept_set_id |-> id, items |-> items,
                    loaded |-> keys_of(committed.concept_set_item, item_ids.keys, id),
                    outcome |-> "none"]]
    /\ UNCHANGED item_ids
    /\ UNCHANGED vocab_vars
    /\ UNCHANGED set_vars
    /\ UNCHANGED search_vars

\* await self._validate_items(data.items), then items.clear() and the adds, in memory
update_validate(r) ==
    LET v == validate_items(requests[r].items)
    IN  /\ requests[r].pc = "queried"
        /\ requests' = [requests EXCEPT ![r] =
               IF v.outcome # "ok"
               THEN [@ EXCEPT !.pc = "done", !.outcome = v.outcome]
               ELSE [@ EXCEPT !.pc = "validated"]]
        /\ UNCHANGED item_ids
        /\ UNCHANGED vocab_vars
        /\ UNCHANGED set_vars
        /\ UNCHANGED search_vars

\* await self.db.commit(), the flush: the DELETEs of the loaded items and the INSERTs of
\* the new ones are sent inside the transaction; a DELETE waits for a row that another
\* transaction has deleted and not yet committed
update_flush(r) ==
    /\ requests[r].pc = "validated"
    /\ \A o \in Requests \ {r} :
          requests[o].pc = "flushed" => requests[o].loaded \cap requests[r].loaded = {}
    /\ requests' = [requests EXCEPT ![r].pc = "flushed"]
    /\ UNCHANGED item_ids
    /\ UNCHANGED vocab_vars
    /\ UNCHANGED set_vars
    /\ UNCHANGED search_vars

\* await self.db.commit(), the COMMIT: what the transaction wrote becomes visible
update_commit(r) ==
    LET rows == new_items(requests[r].concept_set_id, requests[r].items)
    IN  /\ requests[r].pc = "flushed"
        /\ committed' = [committed EXCEPT !.concept_set_item =
               delete_by_key(@, item_ids.keys, requests[r].loaded) \o rows]
        /\ item_ids' =
               [keys |-> SelectSeq(item_ids.keys, LAMBDA k : k \notin requests[r].loaded)
                         \o inserted_keys(Len(rows)),
                next |-> item_ids.next + Len(rows)]
        /\ requests' = [requests EXCEPT ![r].pc = "done", ![r].outcome = "ok"]
        /\ UNCHANGED <<users, session, next_set_id, last>>
        /\ UNCHANGED vocab_vars
        /\ UNCHANGED search_vars

\* the HTTP status of the concept set routes for what the service raised: the handlers
\* catch ConceptSetNotFound (404) and ConceptNotFound (400), any other exception is left
\* to the framework (500)
status_code(op, outcome) ==
    IF outcome = "ok" THEN (IF op = "create" THEN 201 ELSE IF op = "delete" THEN 204 ELSE 200)
    ELSE IF outcome = "ConceptSetNotFound" /\ op # "create" THEN 404
    ELSE IF outcome = "ConceptNotFound" /\ op \in {"create", "update"} THEN 400
    ELSE 500

(***************************************************************************)
(* Specifications                                                          *)
(***************************************************************************)
\* no call made yet
NoVocabularyCall ==
    [op |-> "none", id |-> 0, outcome |-> "none", result |-> NULL,
     get_attempted |-> FALSE, get_raised |-> FALSE,
     set_attempted |-> FALSE, set_raised |-> FALSE,
     hit |-> FALSE, db_executes |-> 0, cached_before |-> NoEntry]

NoCall == [op |-> "none", id |-> 0, outcome |-> "none", missing |-> {}]

NoSearchCall ==
    [search |-> ConceptSearch(<<>>, [domain_id |-> <<>>, vocabulary_id |-> <<>>,
                                     concept_class_id |-> <<>>], None, None, FALSE),
     limit |-> 0, offset |-> 0, dialect |-> "sqlite"]

Init ==
    /\ concept = [id \in LookupIds |-> IF id \in ConceptIds THEN ConceptRow(id) ELSE NoRow]
    /\ concept_relationship = ConceptRelationshipRows
    /\ concept_ancestor = ConceptAncestorRows
    /\ redis_client \in BOOLEAN
    /\ redis = [k \in RedisKeys |-> [text |-> NoEntry, ex |-> 0]]
    /\ vlast = NoVocabularyCall
    /\ users = {1}
    /\ committed = EmptyTables
    /\ session = EmptyTables
    /\ next_set_id = 1
    /\ last = NoCall
    /\ concept_synonym = {}
    /\ search_call = NoSearchCall
    /\ search_result = Pending
    /\ requests = [r \in Requests |-> NoRequest]
    /\ item_ids = NoItemIds

\* the state a search is called in: the vocabulary searched, and the arguments of the call
InitSearch ==
    /\ concept = [id \in DOMAIN ConceptTable |-> ConceptTable[id]]
    /\ concept_relationship = ConceptRelationshipRows
    /\ concept_ancestor = ConceptAncestorRows
    /\ redis_client = FALSE
    /\ redis = [k \in RedisKeys |-> [text |-> NoEntry, ex |-> 0]]
    /\ vlast = NoVocabularyCall
    /\ users = {1}
    /\ committed = EmptyTables
    /\ session = EmptyTables
    /\ next_set_id = 1
    /\ last = NoCall
    /\ concept_synonym = ConceptSynonymRows
    /\ search_call \in SearchCalls
    /\ search_result = Pending
    /\ requests = [r \in Requests |-> NoRequest]
    /\ item_ids = NoItemIds

VocabularyCall ==
    \E id \in LookupIds, get_raises \in BOOLEAN, set_raises \in BOOLEAN :
        \/ get_concept_by_id(id, get_raises, set_raises)
        \/ get_related_concepts(id, get_raises, set_raises)

Expire == \E key \in RedisKeys : expire(key)

ForeignCacheWrite == \E key \in RedisKeys : \E text \in ForeignTexts(key) : foreign_cache_write(key, text)

\* the vocabulary service over a cache only it writes
Next == VocabularyCall \/ Expire

Spec == Init /\ [][Next]_vars

\* the vocabulary service over a cache other writers share
NextShared == VocabularyCall \/ Expire \/ ForeignCacheWrite

SpecShared == Init /\ [][NextShared]_vars

Create == \E name \in Names, items \in ItemLists, user_id \in UserIds :
              create_concept_set(name, items, user_id)

Get == \E id \in 1..MaxSetId : get_concept_set(id)

Update == \E id \in 1..MaxSetId, name \in {None} \cup {Some(n) : n \in Names},
             items \in {None} \cup {Some(l) : l \in ItemLists} :
              update_concept_set(id, name, items)

Delete == \E id \in 1..MaxSetId : delete_concept_set(id)

\* the concept set service, one session reused across calls or closed between them
NextSets == Create \/ Get \/ Update \/ Delete \/ close_session

SpecSets == Init /\ [][NextSets]_vars

\* a concept set with one item, committed before the two requests arrive
InitConcurrent ==
    /\ concept = [id \in LookupIds |-> IF id \in ConceptIds THEN ConceptRow(id) ELSE NoRow]
    /\ concept_relationship = ConceptRelationshipRows
    /\ concept_ancestor = ConceptAncestorRows
    /\ redis_client = FALSE
    /\ redis = [k \in RedisKeys |-> [text |-> NoEntry, ex |-> 0]]
    /\ vlast = NoVocabularyCall
    /\ users = {1}
    /\ committed = [concept_set |-> {SetRow(1, "A", 1)},
                    concept_set_item |-> new_items(1, <<ItemData(1, FALSE)>>)]
    /\ session = committed
    /\ next_set_id = 2
    /\ last = NoCall
    /\ concept_synonym = {}
    /\ search_call = NoSearchCall
    /\ search_result = Pending
    /\ requests = [r \in Requests |-> NoRequest]
    /\ item_ids = [keys |-> <<1>>, next |-> 2]

UpdateQuery == \E r \in Requests : update_query(r)

UpdateValidate == \E r \in Requests : update_validate(r)

UpdateFlush == \E r \in Requests : update_flush(r)

UpdateCommit == \E r \in Requests : update_commit(r)

\* two update_concept_set calls, interleaved at their awaits
NextConcurrent == UpdateQuery \/ UpdateValidate \/ UpdateFlush \/ UpdateCommit

SpecConcurrent == InitConcurrent /\ [][NextConcurrent]_vars

\* one search_concepts call over the vocabulary, for every choice of its arguments
NextSearch == search_concepts

SpecSearch == InitSearch /\ [][NextSearch]_vars

(***************************************************************************)
(* Properties of the vocabulary service                                    *)
(***************************************************************************)
IsConceptCall == vlast.op = "get_concept_by_id"

IsRelatedCall == vlast.op = "get_related_concepts"

\* the key held a text that decodes as a concept when the call started
HeldValidConcept ==
    vlast.cached_before.kind \notin {"nil", "empty_string", "garbage", "json_array"}

\* C1: when a cache is configured and the lookup finds a valid entry under concept:{id},
\* get_concept_by_id returns the deserialized entry, awaits no db.execute and no redis.set
C1_HitServedFromCache ==
    (IsConceptCall /\ redis_client /\ ~vlast.get_raised /\ HeldValidConcept)
        => /\ vlast.outcome = "ok"
           /\ vlast.result = [kind |-> "ConceptSchema",
                              concept_id |-> vlast.cached_before.concept_id,
                              concept_name |-> vlast.cached_before.concept_name]
           /\ vlast.db_executes = 0
           /\ ~vlast.set_attempted

C1_Witness ==
    /\ IsConceptCall /\ redis_client /\ ~vlast.get_raised /\ HeldValidConcept
    /\ vlast.hit
    /\ vlast.result.concept_name = "current"

\* the entry get_concept_by_id is to leave under concept:{id} for a concept of the store
ExpectedEntry(id) ==
    [text |-> [kind |-> "json_object", concept_id |-> id, concept_name |-> concept[id].concept_name],
     ex |-> 3600]

\* C2: on a miss get_concept_by_id queries the store; a concept that exists is written
\* to the cache under concept:{id} with a time to live of at most a day and returned; a
\* concept that does not exist gives ConceptNotFound and no cache write; so no concept:{id}
\* key holds an entry for an id the store does not have
C2_MissQueriesStoreThenCaches ==
    /\ [][\A id \in LookupIds, g \in BOOLEAN, s \in BOOLEAN :
            (get_concept_by_id(id, g, s) /\ ~vlast'.hit)
                => /\ vlast'.db_executes = 1
                   /\ IF concept[id] # NoRow
                      THEN /\ vlast'.outcome = "ok"
                           /\ vlast'.result.concept_id = id
                           /\ vlast'.result.concept_name = concept[id].concept_name
                           /\ redis_client => vlast'.set_attempted
                           /\ (redis_client /\ ~s) => redis'[concept_key(id)] = ExpectedEntry(id)
                           /\ ExpectedEntry(id).ex \in 1..86400
                           /\ \A k \in RedisKeys \ {concept_key(id)} : redis'[k] = redis[k]
                      ELSE /\ vlast'.outcome = "ConceptNotFound"
                           /\ ~vlast'.set_attempted
                           /\ redis' = redis]_vars
    /\ [](\A id \in LookupIds : redis[concept_key(id)].text # NoEntry => concept[id] # NoRow)

C2_Witness ==
    /\ IsConceptCall /\ ~vlast.hit /\ vlast.outcome = "ok"
    /\ vlast.set_attempted /\ ~vlast.set_raised
    /\ redis[concept_key(vlast.id)] = ExpectedEntry(vlast.id)

\* the key held a non-empty text that does not decode when the call started
HeldUndecodable ==
    \/ vlast.cached_before.kind = "garbage"
    \/ IsConceptCall /\ vlast.cached_before.kind = "json_array"
    \/ IsRelatedCall /\ vlast.cached_before.kind = "json_object"

\* C3: no cache error propagates out of get_concept_by_id or get_related_concepts: after
\* a failing redis.get or an undecodable cached value the store is still queried, and
\* after a failing redis.get a call that has a value to cache still awaits redis.set
C3_CacheErrorsAbsorbed ==
    (IsConceptCall \/ IsRelatedCall)
        => /\ vlast.outcome # "RedisError"
           /\ (vlast.get_raised \/ (vlast.get_attempted /\ HeldUndecodable))
                => vlast.db_executes > 0
           /\ (vlast.get_raised /\ vlast.outcome = "ok") => vlast.set_attempted

C3_Witness ==
    /\ IsConceptCall \/ IsRelatedCall
    /\ vlast.get_raised /\ vlast.set_raised
    /\ vlast.outcome = "ok" /\ vlast.db_executes > 0

\* what a VocabularyService constructed with redis=None returns for get_concept_by_id
NoCacheConcept(id) ==
    IF concept[id] = NoRow
    THEN [outcome |-> "ConceptNotFound", result |-> NULL]
    ELSE [outcome |-> "ok",
          result |-> [kind |-> "ConceptSchema", concept_id |-> id,
                      concept_name |-> concept[id].concept_name]]

\* the lists a VocabularyService constructed with redis=None can return for
\* get_related_concepts, one per order of the rows
NoCacheRelated(id) ==
    {related_from_store(o1, o2, o3) :
        o1 \in Perms(q1_source(id)), o2 \in Perms(q2_source(id)), o3 \in Perms(q3_source(id))}

SameAsNoCache ==
    /\ IsConceptCall =>
         [outcome |-> vlast.outcome, result |-> vlast.result] = NoCacheConcept(vlast.id)
    /\ IsRelatedCall =>
         vlast.outcome = "ok" /\ vlast.result \in NoCacheRelated(vlast.id)

\* C4 as stated: whatever the cache does (absent, failing, holding a stale entry), every
\* call returns what a service without a cache returns over the same store
C4_Original == SameAsNoCache

\* the entry served was one of an earlier state of the store
StaleHit ==
    /\ vlast.hit
    /\ \/ IsConceptCall /\ [outcome |-> "ok", result |-> vlast.result] # NoCacheConcept(vlast.id)
       \/ IsRelatedCall /\ vlast.cached_before.elems \notin NoCacheRelated(vlast.id)

\* C4 amended: with the cache absent, failing on any call, holding an undecodable value or
\* holding entries that agree with the store, every call returns what a service without a
\* cache returns; a decodable entry that disagrees with the store is returned as cached
C4_AdvisoryUnlessStale ==
    /\ ~StaleHit => SameAsNoCache
    /\ StaleHit => /\ vlast.outcome = "ok"
                   /\ vlast.db_executes = 0
                   /\ IsConceptCall => vlast.result.concept_name = vlast.cached_before.concept_name
                   /\ IsRelatedCall => vlast.result = vlast.cached_before.elems

C4_Witness ==
    /\ IsRelatedCall /\ vlast.hit /\ ~StaleHit
    /\ vlast.result # <<>>

(***************************************************************************)
(* Properties of the concept set service                                   *)
(***************************************************************************)
\* two items of the list reference the same concept id
SameConceptTwice(items) ==
    \E i \in DOMAIN items, j \in DOMAIN items : i # j /\ items[i].concept_id = items[j].concept_id

\* the concept ids of the list that table concept has no row for
AbsentFromVocabulary(items) ==
    {items[i].concept_id : i \in DOMAIN items} \ {c \in DOMAIN concept : concept[c] # NoRow}

NothingWritten ==
    /\ committed' = committed
    /\ session' = session
    /\ next_set_id' = next_set_id

\* C5: create with an item list that holds the same concept id twice raises
\* ValidationError before any row is written, never a store-level IntegrityError
C5_DuplicateItemsRejected ==
    [][\A name \in Names, items \in ItemLists, user_id \in UserIds :
        (create_concept_set(name, items, user_id) /\ SameConceptTwice(items))
            => /\ last'.op = "create"
               /\ last'.outcome = "ValidationError"
               /\ NothingWritten]_vars

C5_Witness ==
    /\ last.op = "create"
    /\ last.outcome = "ValidationError"
    /\ committed.concept_set # {}

ValidItems(items) == ~SameConceptTwice(items) /\ AbsentFromVocabulary(items) = {}

SetsNamed(tables, name) == {r \in tables.concept_set : r.concept_set_name = name}

ItemsOfSets(tables, rows) ==
    [r \in rows |-> items_of(tables.concept_set_item, r.concept_set_id)]

\* C7: while a concept set named N exists, a create with name N and valid items raises
\* DuplicateResourceError and leaves the existing set (id, name, items) as it was
C7_SecondCreateSameNameFails ==
    [][\A name \in Names, items \in ItemLists :
        (/\ create_concept_set(name, items, 1)
         /\ ValidItems(items)
         /\ SetsNamed(committed, name) # {}
         /\ session = committed)
            => /\ last'.outcome = "DuplicateResourceError"
               /\ SetsNamed(committed', name) = SetsNamed(committed, name)
               /\ ItemsOfSets(committed', SetsNamed(committed, name))
                    = ItemsOfSets(committed, SetsNamed(committed, name))]_vars

\* C8: an integrity violation of the store that is not a collision on the concept set
\* name (here the foreign key of created_by_id) leaves create as an IntegrityError,
\* after a rollback, and never as DuplicateResourceError
C8_OtherIntegrityErrorsPassThrough ==
    [][\A name \in Names, items \in ItemLists, user_id \in UserIds :
        (/\ create_concept_set(name, items, user_id)
         /\ ValidItems(items)
         /\ user_id \notin users
         /\ SetsNamed(session, name) = {})
            => /\ last'.outcome = "IntegrityError"
               /\ session' = committed
               /\ committed' = committed]_vars

\* the committed rows of one concept set: its row and its items
CommittedSet(tables, id) ==
    [row |-> find_set(tables, id), items |-> items_of(tables.concept_set_item, id)]

\* C9: every operation is all-or-nothing: a step of a call that fails leaves the
\* committed state as it was, and a step of a call that succeeds changes the committed
\* rows of the set it was called for only, so that no write of an earlier failed call is
\* committed by a later successful one
C9_AllOrNothing ==
    [][/\ last'.outcome # "ok" => committed' = committed
       /\ last'.outcome = "ok" =>
            \A id \in 1..MaxSetId :
                id # last'.id => CommittedSet(committed', id) = CommittedSet(committed, id)]_vars

\* C10: no two existing concept sets have the same name
C10_NamesUnique ==
    \A r1 \in committed.concept_set, r2 \in committed.concept_set :
        r1 # r2 => r1.concept_set_name # r2.concept_set_name

\* the item rows of a view whose set is the given one
ItemConceptIds(tables, id) ==
    [i \in DOMAIN items_of(tables.concept_set_item, id) |->
        items_of(tables.concept_set_item, id)[i].concept_id]

NoRepeatedConcept(tables) ==
    \A r \in tables.concept_set :
        \A i, j \in DOMAIN ItemConceptIds(tables, r.concept_set_id) :
            i # j => ItemConceptIds(tables, r.concept_set_id)[i]
                        # ItemConceptIds(tables, r.concept_set_id)[j]

\* C11: after any sequence of create, update and delete, no concept set holds two items
\* that reference the same concept id, in the committed state and in the session's view
C11_ItemsUniqueWithinSet ==
    NoRepeatedConcept(committed) /\ NoRepeatedConcept(session)

\* an update committed a list of two items for a set
C11_Witness ==
    /\ last.op = "update"
    /\ last.outcome = "ok"
    /\ Len(items_of(committed.concept_set_item, last.id)) = 2

\* C12: update of an existing set with an explicit empty item list succeeds, removes every
\* item the set had and leaves the set found by id; update with the items argument
\* omitted succeeds and leaves the items of the set exactly as they were, whether or not
\* the same call changes the name
C12_EmptyListClearsNoneKeeps ==
    [][\A id \in 1..MaxSetId, name \in {None} \cup {Some(n) : n \in Names} :
        /\ (update_concept_set(id, name, Some(<<>>)) /\ find_set(session, id) # NoRow)
              => /\ last'.outcome = "ok"
                 /\ find_set(committed', id) # NoRow
                 /\ items_of(committed'.concept_set_item, id) = <<>>
        /\ (update_concept_set(id, name, None) /\ find_set(session, id) # NoRow)
              => /\ last'.outcome = "ok"
                 /\ items_of(committed'.concept_set_item, id)
                      = items_of(session.concept_set_item, id)
                 /\ items_of(committed'.concept_set_item, id)
                      = items_of(committed.concept_set_item, id)]_vars

\* a set that holds items was just updated (the update succeeded and the items are there:
\* the items argument was omitted, or the list given was not empty) next to a set that an
\* update emptied
C12_Witness ==
    /\ last.op = "update"
    /\ last.outcome = "ok"
    /\ items_of(committed.concept_set_item, last.id) # <<>>
    /\ \E r \in committed.concept_set :
          r.concept_set_id # last.id /\ items_of(committed.concept_set_item, r.concept_set_id) = <<>>

NoOrphanItems(tables) ==
    \A i \in DOMAIN tables.concept_set_item :
        find_set(tables, tables.concept_set_item[i].concept_set_id) # NoRow

\* C13: a delete of an existing concept set leaves no concept_set row and no
\* concept_set_item row with its id, so that a get of the id fails; and in every reachable
\* state each concept_set_item row belongs to an existing concept_set row
C13_DeleteCascades ==
    /\ [][\A id \in 1..MaxSetId :
            (delete_concept_set(id) /\ find_set(session, id) # NoRow)
                => /\ last'.outcome = "ok"
                   /\ find_set(committed', id) = NoRow
                   /\ find_set(session', id) = NoRow
                   /\ items_of(committed'.concept_set_item, id) = <<>>
                   /\ items_of(session'.concept_set_item, id) = <<>>]_vars
    /\ [](NoOrphanItems(committed) /\ NoOrphanItems(session))

\* a set was deleted while the items of another set stay
C13_Witness ==
    /\ last.op = "delete"
    /\ last.outcome = "ok"
    /\ committed.concept_set_item # <<>>

DomainErrorKinds == {"ValidationError", "ConceptNotFound", "DuplicateResourceError"}

\* C14: get, update and delete of a concept set id that does not exist fail with an error
\* of a kind of its own (not Validation, Concept Reference or Duplicate Resource), which
\* the routes answer with 404, and change nothing in the store
C14_NotFoundHasOwnKind ==
    [][\A id \in 1..MaxSetId :
        (/\ find_set(session, id) = NoRow
         /\ \/ get_concept_set(id)
            \/ delete_concept_set(id)
            \/ \E name \in {None} \cup {Some(n) : n \in Names},
                  items \in {None} \cup {Some(l) : l \in ItemLists} :
                      update_concept_set(id, name, items))
            => /\ last'.outcome # "ok"
               /\ last'.outcome \notin DomainErrorKinds
               /\ status_code(last'.op, last'.outcome) = 404
               /\ committed' = committed
               /\ session' = session]_vars

(***************************************************************************)
(* Properties of search_concepts                                           *)
(***************************************************************************)
Returned == search_result.kind = "returned"

\* the concept ids of a list of schema objects
Ids(results) == {results[i].concept_id : i \in DOMAIN results}

\* the call asks for every row: the limit is not below the size of table concept and
\* nothing is skipped
Unpaged == search_call.limit >= Cardinality(DOMAIN concept) /\ search_call.offset = 0

\* the same call, made with other criteria
Rerun(search) ==
    search_concepts_run(search, search_call.limit, search_call.offset, search_call.dialect,
                        search_result.all_terms, search_result.scan_order)

NoCriteria(search) ==
    /\ search.query = <<>>
    /\ search.domain_id = <<>> /\ search.vocabulary_id = <<>> /\ search.concept_class_id = <<>>
    /\ ~given(search.standard_concept) /\ ~given(search.invalid_reason)

\* the standard flag of a concept is what STANDARD_CONCEPT asks for
StandardFlagAsked(id, value) ==
    IF value = "N" THEN concept[id].standard_concept = NULL
    ELSE concept[id].standard_concept = Str(value)

\* C15: a search given STANDARD_CONCEPT returns, of the concepts the same search without
\* it returns, exactly those whose standard flag is NULL when the value is "N", and those
\* whose flag is the value itself, letter case included, otherwise; a search not given it
\* (None, or the empty string) is not restricted on the flag; in default and lexical mode
C15_StandardConceptFilter ==
    (Returned /\ Unpaged) =>
        LET search == search_call.search
            unrestricted == Ids(Rerun([search EXCEPT !.standard_concept = None]))
        IN  /\ given(search.standard_concept) =>
                  Ids(search_result.rows) =
                      {id \in unrestricted : StandardFlagAsked(id, search.standard_concept[1])}
            /\ ~given(search.standard_concept) => Ids(search_result.rows) = unrestricted
            /\ NoCriteria([search EXCEPT !.standard_concept = None]) =>
                  unrestricted = DOMAIN concept

\* a lexical search for non-standard concepts returned one, and left a standard one out
C15_Witness ==
    /\ Returned /\ Unpaged
    /\ search_call.search.is_lexical
    /\ search_call.search.standard_concept = Some("N")
    /\ 2 \in Ids(search_result.rows)
    /\ 1 \notin Ids(search_result.rows)

\* the invalid reason of a concept is what INVALID_REASON asks for
InvalidReasonAsked(id, value) ==
    IF value = "V" THEN concept[id].invalid_reason = NULL
    ELSE concept[id].invalid_reason = Str(value)

\* C16: a search given INVALID_REASON returns, of the concepts the same search without it
\* returns, exactly those whose invalid reason is NULL when the value is "V", and those
\* whose invalid reason is the value itself otherwise
C16_InvalidReasonFilter ==
    (Returned /\ Unpaged /\ given(search_call.search.invalid_reason)) =>
        LET search == search_call.search
            unrestricted == Ids(Rerun([search EXCEPT !.invalid_reason = None]))
        IN  /\ Ids(search_result.rows) =
                  {id \in unrestricted : InvalidReasonAsked(id, search.invalid_reason[1])}
            /\ NoCriteria([search EXCEPT !.invalid_reason = None]) =>
                  unrestricted = DOMAIN concept

\* a search for valid concepts returned the valid ones and no invalid one, and a search
\* for a literal reason is what the other witness states
C16_Witness ==
    /\ Returned /\ Unpaged
    /\ search_call.search.invalid_reason = Some("V")
    /\ NoCriteria([search_call.search EXCEPT !.invalid_reason = None])
    /\ Ids(search_result.rows) = {1, 2, 5}

LexicalMode == search_call.search.is_lexical /\ search_call.search.query # <<>>

\* s is a substring of text, letter case ignored
IsSubstringCI(s, text) ==
    \E i \in 0..(Len(text) - Len(s)) : SubSeq(lower(text), i + 1, i + Len(s)) = lower(s)

\* the criteria other than the query, as the specification states them
PassesCriteria(id, search) ==
    /\ search.domain_id # <<>> => \E i \in DOMAIN search.domain_id :
                                      concept[id].domain_id = search.domain_id[i]
    /\ search.vocabulary_id # <<>> => \E i \in DOMAIN search.vocabulary_id :
                                      concept[id].vocabulary_id = search.vocabulary_id[i]
    /\ search.concept_class_id # <<>> => \E i \in DOMAIN search.concept_class_id :
                                      concept[id].concept_class_id = search.concept_class_id[i]
    /\ given(search.standard_concept) => StandardFlagAsked(id, search.standard_concept[1])
    /\ given(search.invalid_reason) => InvalidReasonAsked(id, search.invalid_reason[1])

\* C17: in default mode with a non-empty query, the concepts returned are exactly those
\* of which the query is a substring, letter case ignored, of the name or of the source
\* code, and which pass every other criterion given (membership in the domain, vocabulary
\* and concept class lists, ANDed, an empty list restricting nothing)
C17_DefaultModeSubstring ==
    (Returned /\ Unpaged /\ ~search_call.search.is_lexical /\ search_call.search.query # <<>>) =>
        Ids(search_result.rows) =
            {id \in DOMAIN concept :
                /\ \/ IsSubstringCI(search_call.search.query, concept[id].concept_name)
                   \/ IsSubstringCI(search_call.search.query, concept[id].concept_code)
                /\ PassesCriteria(id, search_call.search)}

\* s without its spaces and hyphens
Stripped(s) == SelectSeq(s, LAMBDA c : c \notin {" ", "-"})

\* 1 - R/L as the fraction <<L - R, L>>, 0 when L is 0, for the terms removed in the order given
ScoreOf(name, terms) ==
    LET L == Len(Stripped(name))
        R == Len(Stripped(replace_all(lower(name), terms)))
    IN  IF L = 0 THEN <<0, 1>> ELSE <<L - R, L>>

NotBelow(x, y) == x[1] * y[2] >= y[1] * x[2]

NameOf(schema) == concept[schema.concept_id].concept_name

NonIncreasing(results, terms) ==
    \A i, j \in DOMAIN results :
        i < j => NotBelow(ScoreOf(NameOf(results[i]), terms), ScoreOf(NameOf(results[j]), terms))

\* the list the call gives when it asks for every row
Unlimited ==
    search_concepts_run(search_call.search, Cardinality(DOMAIN concept), 0, search_call.dialect,
                        search_result.all_terms, search_result.scan_order)

PagedAfterOrdering ==
    (search_call.limit >= 0 /\ search_call.offset >= 0) =>
      search_result.rows =
        SubSeq(Unlimited, search_call.offset + 1,
               IF search_call.offset + search_call.limit < Len(Unlimited)
               THEN search_call.offset + search_call.limit ELSE Len(Unlimited))

\* the terms of the query alone, longest first, without the prefixes of the long ones
QueryTermsOnly ==
    SelectSeq(search_result.all_terms, LAMBDA t : t \in Range(split(lower(search_call.search.query))))

\* C18 as stated: the lexical result is in non-increasing order of the score computed by
\* removing the query terms, longest first, and limit and offset apply after the ordering
C18_Original ==
    (Returned /\ LexicalMode) =>
        /\ NonIncreasing(search_result.rows, QueryTermsOnly)
        /\ PagedAfterOrdering

\* C18: the lexical result is in non-increasing order of the score 1 - R/L (0 when L is
\* 0), L the length of the name without spaces and hyphens, R the length without spaces
\* and hyphens of the lowercased name after the removal, longest first, of every query
\* term and of the first 6 characters of every query term of 8 characters or more; limit
\* and offset apply after the ordering
C18_OrderedByScore ==
    (Returned /\ LexicalMode) =>
        /\ NonIncreasing(search_result.rows, search_result.all_terms)
        /\ PagedAfterOrdering

\* a page of two concepts of different score, taken behind the first concept of the order
C18_Witness ==
    /\ Returned /\ LexicalMode
    /\ search_call.offset = 1
    /\ Len(search_result.rows) = 2
    /\ search_result.scan_order = "asc"
    /\ ~NotBelow(ScoreOf(NameOf(search_result.rows[2]), search_result.all_terms),
                 ScoreOf(NameOf(search_result.rows[1]), search_result.all_terms))
    /\ search_result.rows[1].concept_id > search_result.rows[2].concept_id

Position(results, id) == CHOOSE i \in DOMAIN results : results[i].concept_id = id

\* the words of the query are exactly the words of the name
NamedByQuery(name) == split(lower(name)) = split(lower(search_call.search.query))

\* what follows name_a and a space in name_b, <<>> when name_b does not start so
FurtherWords(name_a, name_b) ==
    IF /\ Len(name_b) > Len(name_a) + 1
       /\ SubSeq(name_b, 1, Len(name_a) + 1) = name_a \o <<" ">>
    THEN SubSeq(name_b, Len(name_a) + 2, Len(name_b))
    ELSE <<>>

\* name_b is name_a followed by further words, none of them a query term
Extends(name_a, name_b) ==
    /\ split(FurtherWords(name_a, name_b)) # <<>>
    /\ Range(split(lower(FurtherWords(name_a, name_b))))
          \cap Range(split(lower(search_call.search.query))) = {}

RanksStrictlyAbove(a, b) ==
    /\ NotBelow(ScoreOf(concept[a].concept_name, search_result.all_terms),
                ScoreOf(concept[b].concept_name, search_result.all_terms))
    /\ ~NotBelow(ScoreOf(concept[b].concept_name, search_result.all_terms),
                 ScoreOf(concept[a].concept_name, search_result.all_terms))
    /\ {a, b} \subseteq Ids(search_result.rows)
          => Position(search_result.rows, a) < Position(search_result.rows, b)

\* C19 as stated: for a query whose terms are the words of A's name, A ranks strictly
\* above every B whose name is A's name followed by further words not among the terms
C19_Original ==
    (Returned /\ LexicalMode) =>
        \A a, b \in DOMAIN concept :
            (/\ NamedByQuery(concept[a].concept_name)
             /\ Extends(concept[a].concept_name, concept[b].concept_name))
                => RanksStrictlyAbove(a, b)

\* the further words keep a character other than a space or a hyphen when the terms are
\* removed from them
LeavesRemainder(name_a, name_b) ==
    Stripped(replace_all(lower(FurtherWords(name_a, name_b)), search_result.all_terms)) # <<>>

\* C19: for a query whose terms are the words of A's name (a name with a character other
\* than spaces and hyphens), A ranks strictly above every B whose name is A's name
\* followed by further words, not among the terms, of which a character other than a
\* space or a hyphen remains when the terms are removed
C19_ExactAboveExtended ==
    (Returned /\ LexicalMode) =>
        \A a, b \in DOMAIN concept :
            (/\ NamedByQuery(concept[a].concept_name)
             /\ Stripped(concept[a].concept_name) # <<>>
             /\ Extends(concept[a].concept_name, concept[b].concept_name)
             /\ LeavesRemainder(concept[a].concept_name, concept[b].concept_name))
                => RanksStrictlyAbove(a, b)

\* "Test Concept" is returned before "Test Concept Extended" by a scan that meets it last
C19_Witness ==
    /\ Returned /\ LexicalMode
    /\ NamedByQuery(concept[1].concept_name)
    /\ Extends(concept[1].concept_name, concept[2].concept_name)
    /\ search_result.scan_order = "desc"
    /\ {1, 2} \subseteq Ids(search_result.rows)
    /\ Position(search_result.rows, 1) < Position(search_result.rows, 2)

RECURSIVE DropLeadingSpaces(_)
DropLeadingSpaces(s) ==
    IF s # <<>> /\ Head(s) = " " THEN DropLeadingSpaces(Tail(s)) ELSE s

RECURSIVE CollapseSpaces(_)
CollapseSpaces(s) ==
    IF s = <<>> THEN <<>>
    ELSE IF Head(s) = " "
         THEN (IF DropLeadingSpaces(s) = <<>> THEN <<>>
               ELSE <<" ">> \o CollapseSpaces(DropLeadingSpaces(s)))
         ELSE <<Head(s)>> \o CollapseSpaces(Tail(s))

\* two queries differ in nothing but the amount of whitespace between, before or after
\* their terms
SameUpToWhitespace(q1, q2) ==
    /\ CollapseSpaces(DropLeadingSpaces(q1)) = CollapseSpaces(DropLeadingSpaces(q2))
    /\ CollapseSpaces(DropLeadingSpaces(q1)) # <<>>

\* C20: a lexical search gives the same terms, hence the same candidates and scores, and
\* the same list for every query that differs from its own only in the amount of
\* whitespace between, before or after the terms
C20_WhitespaceInsensitive ==
    (Returned /\ LexicalMode) =>
        \A q2 \in Queries :
            SameUpToWhitespace(search_call.search.query, q2) =>
                /\ all_terms_choices(q2) = all_terms_choices(search_call.search.query)
                /\ matched_ids(search_result.all_terms) \in
                      {matched_ids(o) : o \in all_terms_choices(q2)}
                /\ Rerun([search_call.search EXCEPT !.query = q2]) = search_result.rows

\* the search for " Test  Concept " returned what the search for "Test Concept" returns
C20_Witness ==
    /\ Returned /\ LexicalMode
    /\ search_call.search.query # CollapseSpaces(DropLeadingSpaces(search_call.search.query))
    /\ \E q2 \in Queries \ {search_call.search.query} :
          SameUpToWhitespace(search_call.search.query, q2)
    /\ Len(search_result.rows) >= 2

(***************************************************************************)
(* Properties of get_related_concepts                                      *)
(***************************************************************************)
\* the valid direct relationships from id to c
DirectRows(id, c) ==
    {r \in concept_relationship :
        r.concept_id_1 = id /\ r.concept_id_2 = c /\ r.invalid_reason = NULL}

\* the ancestor rows that make c an ancestor of id, c other than id
AncestorRowsOf(id, c) ==
    {a \in concept_ancestor :
        a.descendant_concept_id = id /\ a.ancestor_concept_id = c /\ c # id}

\* the ancestor rows that make c a descendant of id, c other than id
DescendantRowsOf(id, c) ==
    {a \in concept_ancestor :
        a.ancestor_concept_id = id /\ a.descendant_concept_id = c /\ c # id}

\* the relationship entries the source rows of (id, c) stand for
EntriesOf(id, c) ==
    {[relationship_name |-> relationship[r.relationship_id], relationship_distance |-> 0] :
        r \in DirectRows(id, c)}
    \cup {[relationship_name |-> "Ancestor",
           relationship_distance |-> a.min_levels_of_separation] : a \in AncestorRowsOf(id, c)}
    \cup {[relationship_name |-> "Descendant",
           relationship_distance |-> a.min_levels_of_separation] : a \in DescendantRowsOf(id, c)}

SourceRowCount(id, c) ==
    Cardinality(DirectRows(id, c)) + Cardinality(AncestorRowsOf(id, c))
        + Cardinality(DescendantRowsOf(id, c))

RelatedReturned == IsRelatedCall /\ vlast.outcome = "ok"

\* C21: get_related_concepts(id) returns, for every concept some source row of id leads
\* to, the entries of these rows and no other: the relationship type's name at distance
\* 0 for a valid direct relationship from id, "Ancestor" / "Descendant" at the row's
\* min_levels_of_separation for an ancestor / descendant row other than id's own; it
\* returns no concept without such a row, and the empty list, not an error, for an id
\* without any
C21_RelatedEntriesFromSourceRows ==
    /\ IsRelatedCall => vlast.outcome = "ok"
    /\ RelatedReturned =>
          /\ {vlast.result[i].concept_id : i \in DOMAIN vlast.result}
                = {c \in DOMAIN concept : SourceRowCount(vlast.id, c) > 0}
          /\ \A i \in DOMAIN vlast.result :
                Range(vlast.result[i].relationships)
                    = EntriesOf(vlast.id, vlast.result[i].concept_id)
          /\ (\A c \in DOMAIN concept : SourceRowCount(vlast.id, c) = 0) => vlast.result = <<>>

\* the related concepts of concept 1 were read from the store: concept 2, by two valid
\* direct relationships (a third one is invalid), as an ancestor and as a descendant
C21_Witness ==
    /\ RelatedReturned /\ ~vlast.hit
    /\ vlast.id = 1
    /\ Len(vlast.result) = 1
    /\ Cardinality(Range(vlast.result[1].relationships)) = 4

\* C22: the list get_related_concepts returns holds no two records of one related
\* concept: a concept reached through several sources, or several rows of one source,
\* is one record whose relationships list has one entry for each of these rows
C22_OneRecordPerConcept ==
    RelatedReturned =>
        /\ \A i, j \in DOMAIN vlast.result :
              i # j => vlast.result[i].concept_id # vlast.result[j].concept_id
        /\ \A i \in DOMAIN vlast.result :
              Len(vlast.result[i].relationships)
                  = SourceRowCount(vlast.id, vlast.result[i].concept_id)

\* concept 1 was returned for concept 2 as one record, reached as ancestor and descendant
C22_Witness ==
    /\ RelatedReturned
    /\ vlast.id = 2
    /\ Len(vlast.result) = 1
    /\ vlast.result[1].concept_id = 1
    /\ Len(vlast.result[1].relationships) = 2

(***************************************************************************)
(* Properties of the paging of search_concepts                             *)
(***************************************************************************)
\* a limit clamped to be positive
ClampedLimit == IF search_call.limit < 1 THEN 1 ELSE search_call.limit

\* an offset clamped to skip nothing when it is negative
ClampedOffset == IF search_call.offset < 0 THEN 0 ELSE search_call.offset

\* C23: for every limit and offset, zero and negative ones included, search_concepts
\* returns the page of the match list that the clamped limit and offset select: at most
\* limit concepts, after the first offset concepts
C23_LimitOffsetClamped ==
    search_result # Pending =>
        /\ Returned
        /\ search_result.rows =
               SubSeq(Unlimited, ClampedOffset + 1,
                      IF ClampedOffset + ClampedLimit < Len(Unlimited)
                      THEN ClampedOffset + ClampedLimit ELSE Len(Unlimited))

(***************************************************************************)
(* Properties of the candidates of the lexical search                      *)
(***************************************************************************)
\* the words of the query, in lower case
QueryWords == Range(split(lower(search_call.search.query)))

\* the query terms shorter than LONG_TERM_LEN characters and the prefixes of
\* TRUNCATED_LEN characters of the others
CandidateTerms ==
    {t \in QueryWords : Len(t) < LONG_TERM_LEN}
    \cup {SubSeq(t, 1, TRUNCATED_LEN) : t \in {w \in QueryWords : Len(w) >= LONG_TERM_LEN}}

\* the name of the concept or one of its synonyms contains the term, letter case ignored
ContainsTerm(id, t) ==
    \/ IsSubstringCI(t, concept[id].concept_name)
    \/ \E s \in concept_synonym : s.concept_id = id /\ IsSubstringCI(t, s.concept_synonym_name)

\* C24: in lexical mode, for a query with terms, the concepts returned when every row is
\* asked for are exactly those that pass the other criteria and whose name or synonym
\* contains, letter case ignored, a query term shorter than 8 characters or the
\* 6-character prefix of a longer one
C24_LexicalCandidates ==
    (Returned /\ LexicalMode /\ Unpaged /\ QueryWords # {}) =>
        Ids(search_result.rows) =
            {id \in DOMAIN concept :
                /\ concept[id] # NoRow
                /\ PassesCriteria(id, search_call.search)
                /\ \E t \in CandidateTerms : ContainsTerm(id, t)}

(***************************************************************************)
(* Properties of the lexical score                                         *)
(***************************************************************************)
\* two scores are the same fraction
SameScore(x, y) == x[1] * y[2] = y[1] * x[2]

\* C27: the lexical score of a concept is the same in whatever order the query terms of
\* one length are removed from its name, and the search returns the same list for each
\* such order
C27_ScoreIndependentOfTermOrder ==
    (Returned /\ LexicalMode) =>
        \A o \in all_terms_choices(search_call.search.query) :
            /\ \A i \in DOMAIN search_result.rows :
                   SameScore(ScoreOf(NameOf(search_result.rows[i]), o),
                             ScoreOf(NameOf(search_result.rows[i]), search_result.all_terms))
            /\ search_result.rows =
                   search_concepts_run(search_call.search, search_call.limit, search_call.offset,
                                       search_call.dialect, o, search_result.scan_order)

\* C28: in lexical mode every concept that passes the other criteria and whose name or
\* synonym contains a whole query term, letter case ignored, is returned when every row
\* is asked for, whatever the length of the term
C28_VerbatimMatchIsCandidate ==
    (Returned /\ LexicalMode /\ Unpaged) =>
        \A id \in DOMAIN concept :
            (/\ concept[id] # NoRow
             /\ PassesCriteria(id, search_call.search)
             /\ \E w \in QueryWords : ContainsTerm(id, w))
            => id \in Ids(search_result.rows)

\* a concept returned for a query of which it contains one term only, a term of
\* LONG_TERM_LEN characters or more, next to a concept that contains no whole term
C28_Witness ==
    /\ Returned /\ LexicalMode /\ Unpaged
    /\ \E id \in Ids(search_result.rows) :
          /\ \E w \in QueryWords : Len(w) >= LONG_TERM_LEN /\ ContainsTerm(id, w)
          /\ \A w \in QueryWords : ContainsTerm(id, w) => Len(w) >= LONG_TERM_LEN
    /\ \E id \in Ids(search_result.rows) : \A w \in QueryWords : ~ContainsTerm(id, w)

(***************************************************************************)
(* Properties of the rows of the lexical search                            *)
(***************************************************************************)
\* C29: a lexical search result never holds the same concept twice
C29_NoConceptTwice ==
    (Returned /\ LexicalMode) =>
        \A i, j \in DOMAIN search_result.rows :
            i # j => search_result.rows[i].concept_id # search_result.rows[j].concept_id

\* a concept returned that matches two terms of the query by its name and one of them by
\* a synonym as well
C29_Witness ==
    /\ Returned /\ LexicalMode
    /\ \E i \in DOMAIN search_result.rows : \E w1, w2 \in CandidateTerms :
          LET id == search_result.rows[i].concept_id
          IN  /\ w1 # w2
              /\ IsSubstringCI(w1, concept[id].concept_name)
              /\ IsSubstringCI(w2, concept[id].concept_name)
              /\ \E s \in concept_synonym :
                     s.concept_id = id /\ IsSubstringCI(w1, s.concept_synonym_name)

\* the query is not empty and holds whitespace only
WhitespaceOnly == search_call.search.query # <<>> /\ QueryWords = {}

\* C30: a lexical search with a query of whitespace only has no terms and returns, when
\* every row is asked for, every concept that passes the other criteria, each with score
\* 0; a lexical search with an empty query returns what the default-mode search returns
C30_WhitespaceOnlyQuery ==
    /\ (Returned /\ search_call.search.is_lexical /\ WhitespaceOnly /\ Unpaged) =>
          /\ search_result.all_terms = <<>>
          /\ Ids(search_result.rows) =
                 {id \in DOMAIN concept :
                     concept[id] # NoRow /\ PassesCriteria(id, search_call.search)}
          /\ \A i \in DOMAIN search_result.rows :
                 ScoreOf(NameOf(search_result.rows[i]), search_result.all_terms)[1] = 0
    /\ (Returned /\ search_call.search.is_lexical /\ search_call.search.query = <<>>) =>
          search_result.rows = Rerun([search_call.search EXCEPT !.is_lexical = FALSE])

\* a lexical search with a query of two spaces that returned every concept of the table,
\* those without a synonym included
C30_Witness ==
    /\ Returned /\ search_call.search.is_lexical /\ WhitespaceOnly /\ Unpaged
    /\ Ids(search_result.rows) = {id \in DOMAIN concept : concept[id] # NoRow}
    /\ \E i \in DOMAIN search_result.rows :
          \A s \in concept_synonym : s.concept_id # search_result.rows[i].concept_id

(***************************************************************************)
(* Properties of the replacement of items by update_concept_set            *)
(***************************************************************************)
\* the list names one concept id twice
RepeatsConceptId(items) ==
    \E i, j \in DOMAIN items : i # j /\ items[i].concept_id = items[j].concept_id

\* the concept ids of the list that table concept does not hold
AbsentConceptIds(items) ==
    {items[i].concept_id : i \in DOMAIN items}
    \ {c \in DOMAIN concept : concept[c] # NoRow}

\* the items of the set are the supplied ones, one row each, with the supplied flags
HoldsExactly(tables, id, items) ==
    LET rows == items_of(tables.concept_set_item, id)
    IN  /\ Len(rows) = Len(items)
        /\ \A i \in DOMAIN items :
              /\ rows[i].concept_set_id = id
              /\ rows[i].concept_id = items[i].concept_id
              /\ rows[i].is_excluded = items[i].is_excluded
              /\ rows[i].include_descendants = items[i].include_descendants
              /\ rows[i].include_mapped = items[i].include_mapped

\* C25: an update of an existing set that supplies an items list raises a Validation
\* error when the list repeats a concept id, a concept-not-found error naming the absent
\* ids when a listed concept does not exist, and otherwise succeeds and leaves the set
\* with exactly the supplied items and their flags, none of the former items remaining
C25_UpdateReplacesItems ==
    [][\A id \in 1..MaxSetId, name \in {None} \cup {Some(n) : n \in Names}, items \in ItemLists :
        (update_concept_set(id, name, Some(items)) /\ find_set(session, id) # NoRow)
            => IF RepeatsConceptId(items)
               THEN last'.outcome = "ValidationError" /\ committed' = committed
               ELSE IF AbsentConceptIds(items) # {}
               THEN /\ last'.outcome = "ConceptNotFound"
                    /\ last'.missing = AbsentConceptIds(items)
                    /\ committed' = committed
               ELSE /\ last'.outcome = "ok"
                    /\ HoldsExactly(committed', id, items)
                    /\ HoldsExactly(session', id, items)]_vars

\* an update has just succeeded on a set that now holds two items, one of them excluded,
\* while another set holds a single item
C25_Witness ==
    /\ last.op = "update"
    /\ last.outcome = "ok"
    /\ LET rows == items_of(committed.concept_set_item, last.id)
       IN  /\ Len(rows) = 2
           /\ rows[1].concept_id = 1 /\ ~rows[1].is_excluded
           /\ rows[2].concept_id = 2 /\ rows[2].is_excluded /\ rows[2].include_descendants
    /\ \E r \in committed.concept_set :
          r.concept_set_id # last.id /\ Len(items_of(committed.concept_set_item, r.concept_set_id)) = 1

(***************************************************************************)
(* Properties of interleaved updates                                       *)
(***************************************************************************)
\* two rows of the set name one concept
SharesConceptId(tables, id) ==
    LET rows == items_of(tables.concept_set_item, id)
    IN  \E i, j \in DOMAIN rows : i # j /\ rows[i].concept_id = rows[j].concept_id

\* C26: once two interleaved update_concept_set calls that replace the items of one
\* concept set have both committed, the committed items of the set are the list of one
\* of the two calls, and no two of them share a concept id
C26_InterleavedUpdatesKeepOneList ==
    \A r1, r2 \in Requests :
        (/\ r1 # r2
         /\ requests[r1].pc = "done" /\ requests[r1].outcome = "ok"
         /\ requests[r2].pc = "done" /\ requests[r2].outcome = "ok"
         /\ requests[r1].concept_set_id = requests[r2].concept_set_id)
        => /\ \/ HoldsExactly(committed, requests[r1].concept_set_id, requests[r1].items)
              \/ HoldsExactly(committed, requests[r1].concept_set_id, requests[r2].items)
           /\ ~SharesConceptId(committed, requests[r1].concept_set_id)

====
